---- MODULE Spec2Model ----
(***************************************************************************)
(* Model of typescript-d-bindgen: the IR built from TypeScript             *)
(* declarations (ir.ts), the boundary reducer and the symbol mangler       *)
(* (utils.ts), the foreign-linkage generator (dbindings.ts), the wrapper   *)
(* generator (dwrappers.ts) and the marshalling generator                  *)
(* (jsgenerator.ts).                                                       *)
(*                                                                         *)
(* A TypeScript syntax node is a record with a `kind` field named after    *)
(* ts.SyntaxKind; an IR type is a record with a `type` field, exactly the  *)
(* tagged objects of ir.ts.  A thrown Error is the record                  *)
(* [error |-> TRUE, message |-> ...], propagated by every caller.          *)
(* A reference's `declaration` thunk is modelled by the name it resolves:  *)
(* Declaration(ref) re-builds the declaration from the scope, as the       *)
(* un-memoized closure of getReferencedDeclaration does.                   *)
(***************************************************************************)
EXTENDS Integers, Sequences, FiniteSets, TLC

VARIABLES
    scope,         \* IR of the declarations in scope, as the thunk of a reference builds it
    pc,            \* position of the driver: "parse", "generate", "done"; or "call",
                   \* "encoded" (between an array encoder and its decoder), "returned"
    source,        \* statements of the source file handed to iterateDeclarations
    declarations,  \* result of iterateDeclarations: IR declarations or an error
    dbindings,     \* result of generateDBindingCode: emitted extern declarations or an error
    call,          \* a direct call of one exported helper with its arguments
    ret            \* the value that call returned

vars == <<scope, pc, source, declarations, dbindings, call, ret>>

----------------------------------------------------------------------------
(* Bounds of the explored inputs *)

\* nesting depth of the type nodes of the source file
MaxDepth == 2
\* largest number of members of a union type node
MaxUnionLen == 3
\* the longest array given to an array codec
MaxArrayLen == 2

----------------------------------------------------------------------------
(* Generic helpers *)

None == [none |-> TRUE]

Error(message) == [error |-> TRUE, message |-> message]

IsError(v) == "error" \in DOMAIN v

\* index (1-based) of the first error of a sequence of results, 0 if none:
\* Array.map evaluates in order and the first throw escapes
FirstErrorIndex(s) ==
    IF \E i \in 1..Len(s) : IsError(s[i])
    THEN CHOOSE i \in 1..Len(s) : IsError(s[i]) /\ \A j \in 1..(i-1) : ~IsError(s[j])
    ELSE 0

\* the first error of a sequence of results, None if there is none
FirstError(s) == IF FirstErrorIndex(s) = 0 THEN None ELSE s[FirstErrorIndex(s)]

\* the first error among the types of a sequence of parameters
FirstErrorType(parameters) ==
    FirstError([i \in 1..Len(parameters) |-> parameters[i].type])

RECURSIVE join(_, _)
join(s, sep) ==
    IF Len(s) = 0 THEN ""
    ELSE IF Len(s) = 1 THEN s[1]
    ELSE s[1] \o sep \o join(Tail(s), sep)

RECURSIVE concatAll(_)
concatAll(ss) == IF Len(ss) = 0 THEN <<>> ELSE ss[1] \o concatAll(Tail(ss))

----------------------------------------------------------------------------
(* TypeScript syntax nodes (the input of ir.ts) *)

KeywordNode(kind) == [kind |-> kind]

StringLiteralNode(text) == [kind |-> "LiteralType", literal |-> "StringLiteral", text |-> text]
NumericLiteralNode(text) == [kind |-> "LiteralType", literal |-> "NumericLiteral", text |-> text]
TrueLiteralNode == [kind |-> "LiteralType", literal |-> "TrueKeyword", text |-> "true"]

UnionNode(types) == [kind |-> "UnionType", types |-> types]
IntersectionNode(types) == [kind |-> "IntersectionType", types |-> types]
ArrayNode(elementType) == [kind |-> "ArrayType", elementType |-> elementType]
ParenthesizedNode(type) == [kind |-> "ParenthesizedType", type |-> type]
TypeReferenceNode(typeName, typeArguments) ==
    [kind |-> "TypeReference", typeName |-> typeName, typeArguments |-> typeArguments]
MappedNode == [kind |-> "MappedType"]
TypeLiteralNode == [kind |-> "TypeLiteral"]
TypeOperatorNode(type) == [kind |-> "TypeOperator", type |-> type]
ConditionalNode(checkType, extendsType, trueType, falseType) ==
    [kind |-> "ConditionalType", checkType |-> checkType, extendsType |-> extendsType,
     trueType |-> trueType, falseType |-> falseType]
TypePredicateNode(type) == [kind |-> "TypePredicate", type |-> type]
FunctionTypeNode(parameters, type) ==
    [kind |-> "FunctionType", typeParameters |-> <<>>, parameters |-> parameters, type |-> type]
\* an absent type annotation (`type == undefined` in iterateType)
NoTypeNode == [kind |-> "undefined"]

ParameterNode(name, type, questionToken) ==
    [kind |-> "Parameter", name |-> name, type |-> type, questionToken |-> questionToken]
PropertySignatureNode(name, type, questionToken) ==
    [kind |-> "PropertySignature", name |-> name, type |-> type, questionToken |-> questionToken]
MethodSignatureNode(name, parameters, type, questionToken) ==
    [kind |-> "MethodSignature", name |-> name, typeParameters |-> <<>>,
     parameters |-> parameters, type |-> type, questionToken |-> questionToken]
InterfaceNode(name, typeParameters, members, fileName) ==
    [kind |-> "InterfaceDeclaration", name |-> name, typeParameters |-> typeParameters,
     members |-> members, fileName |-> fileName]
FunctionNode(name, parameters, type, fileName) ==
    [kind |-> "FunctionDeclaration", name |-> name, typeParameters |-> <<>>,
     parameters |-> parameters, type |-> type, questionToken |-> FALSE, fileName |-> fileName]
AliasNode(name, typeParameters, type, fileName) ==
    [kind |-> "TypeAliasDeclaration", name |-> name, typeParameters |-> typeParameters,
     type |-> type, fileName |-> fileName]
\* flags: the ts.TypeFlags bit getEnumMemberType finds on the member
EnumMemberNode(name, initializer, flags) ==
    [name |-> name, initializer |-> initializer, flags |-> flags]
EnumNode(name, members, fileName) ==
    [kind |-> "EnumDeclaration", name |-> name, members |-> members, fileName |-> fileName]
TypeParameterNode(name, fileName) ==
    [kind |-> "TypeParameter", name |-> name, constraint |-> NoTypeNode,
     default |-> NoTypeNode, fileName |-> fileName]

MainFile == "filename.ts"
LibFile == "/node_modules/typescript/lib/lib.dom.d.ts"

NumberNode == KeywordNode("NumberKeyword")
StringNode == KeywordNode("StringKeyword")
BooleanNode == KeywordNode("BooleanKeyword")
VoidNode == KeywordNode("VoidKeyword")
NullNode == KeywordNode("NullKeyword")
UndefinedNode == KeywordNode("UndefinedKeyword")

\* The type symbols the type checker has in scope (getSymbolsInScope): the
\* declarations a TypeReference of the inputs can resolve to.
Scope ==
    [ Point |-> InterfaceNode("Point", <<>>,
                  << PropertySignatureNode("x", NumberNode, FALSE),
                     PropertySignatureNode("y", NumberNode, FALSE) >>, MainFile),
      HTMLElement |-> InterfaceNode("HTMLElement", <<>>, <<>>, LibFile),
      LineType |-> EnumNode("LineType",
                  << EnumMemberNode("Simple", "0", "NumberLiteral"),
                     EnumMemberNode("WithSteps", "1", "NumberLiteral") >>, MainFile),
      LineName |-> EnumNode("LineName",
                  << EnumMemberNode("s", "\"Simple\"", "StringLiteral"),
                     EnumMemberNode("w", "\"WithSteps\"", "StringLiteral") >>, MainFile),
      PointAlias |-> AliasNode("PointAlias", <<>>, TypeReferenceNode("Point", <<>>), MainFile),
      PointAlias2 |-> AliasNode("PointAlias2", <<>>, TypeReferenceNode("PointAlias", <<>>), MainFile),
      MappedAlias |-> AliasNode("MappedAlias", <<>>, MappedNode, MainFile),
      Num |-> AliasNode("Num", <<>>, NumberNode, MainFile),
      Box |-> AliasNode("Box", <<"T">>, ArrayNode(TypeReferenceNode("T", <<>>)), MainFile),
      Ref |-> AliasNode("Ref", <<"T">>, TypeReferenceNode("Point", <<>>), MainFile),
      T |-> TypeParameterNode("T", MainFile),
      LineTypeNoInit |-> EnumNode("LineTypeNoInit",
                  << EnumMemberNode("Simple", "", "NumberLiteral"),
                     EnumMemberNode("WithSteps", "", "NumberLiteral") >>, MainFile),
      A |-> InterfaceNode("A", <<>>, << PropertySignatureNode("name", StringNode, FALSE) >>,
                          MainFile),
      B |-> InterfaceNode("B", <<>>, << PropertySignatureNode("age", NumberNode, FALSE) >>,
                          MainFile),
      Common |-> AliasNode("Common", <<>>,
                           IntersectionNode(<< TypeReferenceNode("A", <<>>),
                                               TypeReferenceNode("B", <<>>) >>), MainFile),
      StructA |-> InterfaceNode("StructA", <<>>,
                  << PropertySignatureNode("kind", StringLiteralNode("a"), FALSE) >>, MainFile),
      StructB |-> InterfaceNode("StructB", <<>>,
                  << PropertySignatureNode("kind", StringLiteralNode("b"), FALSE) >>, MainFile),
      StructA2 |-> InterfaceNode("StructA2", <<>>,
                  << PropertySignatureNode("kind", StringLiteralNode("a"), FALSE),
                     PropertySignatureNode("x", NumberNode, FALSE) >>, MainFile),
      StructAB |-> InterfaceNode("StructAB", <<>>,
                  << PropertySignatureNode("kind",
                         UnionNode(<< StringLiteralNode("a"), StringLiteralNode("b") >>),
                         FALSE) >>, MainFile),
      StructBC |-> InterfaceNode("StructBC", <<>>,
                  << PropertySignatureNode("kind",
                         UnionNode(<< StringLiteralNode("b"), StringLiteralNode("c") >>),
                         FALSE) >>, MainFile),
      StructOptA |-> InterfaceNode("StructOptA", <<>>,
                  << PropertySignatureNode("kind", StringLiteralNode("a"), TRUE) >>, MainFile),
      StructKindTag |-> InterfaceNode("StructKindTag", <<>>,
                  << PropertySignatureNode("kind", StringLiteralNode("k"), FALSE),
                     PropertySignatureNode("tag", StringLiteralNode("x"), FALSE) >>, MainFile),
      StructTagKind |-> InterfaceNode("StructTagKind", <<>>,
                  << PropertySignatureNode("tag", StringLiteralNode("y"), FALSE),
                     PropertySignatureNode("kind", StringLiteralNode("l"), FALSE) >>, MainFile),
      StructTag |-> InterfaceNode("StructTag", <<>>,
                  << PropertySignatureNode("tag", StringLiteralNode("z"), FALSE) >>, MainFile),
      Json |-> AliasNode("Json", <<>>,
                  UnionNode(<< StringNode, ArrayNode(TypeReferenceNode("Json", <<>>)) >>),
                  MainFile),
      MaybeList |-> AliasNode("MaybeList", <<>>,
                  UnionNode(<< ArrayNode(TypeReferenceNode("MaybeList", <<>>)), NullNode >>),
                  MainFile),
      LinkedNode |-> InterfaceNode("LinkedNode", <<>>,
                  << PropertySignatureNode("next", TypeReferenceNode("LinkedNode", <<>>),
                                           FALSE) >>, MainFile) ]

ScopeNames == DOMAIN Scope

----------------------------------------------------------------------------
(* Source text of a node: Node.getText() *)

KeywordText(kind) ==
    CASE kind = "AnyKeyword" -> "any"
      [] kind = "UnknownKeyword" -> "unknown"
      [] kind = "NumberKeyword" -> "number"
      [] kind = "BigIntKeyword" -> "bigint"
      [] kind = "ObjectKeyword" -> "object"
      [] kind = "BooleanKeyword" -> "boolean"
      [] kind = "StringKeyword" -> "string"
      [] kind = "SymbolKeyword" -> "symbol"
      [] kind = "ThisKeyword" -> "this"
      [] kind = "VoidKeyword" -> "void"
      [] kind = "UndefinedKeyword" -> "undefined"
      [] kind = "NullKeyword" -> "null"
      [] kind = "NeverKeyword" -> "never"

KeywordKinds ==
    {"AnyKeyword", "UnknownKeyword", "NumberKeyword", "BigIntKeyword", "ObjectKeyword",
     "BooleanKeyword", "StringKeyword", "SymbolKeyword", "ThisKeyword", "VoidKeyword",
     "UndefinedKeyword", "NullKeyword", "NeverKeyword"}

isKeyword(type) == type.kind \in KeywordKinds

RECURSIVE getText(_)
getText(node) ==
    CASE isKeyword(node) -> KeywordText(node.kind)
      [] node.kind = "LiteralType" ->
            IF node.literal = "StringLiteral" THEN "'" \o node.text \o "'" ELSE node.text
      [] node.kind = "UnionType" ->
            join([i \in 1..Len(node.types) |-> getText(node.types[i])], " | ")
      [] node.kind = "IntersectionType" ->
            join([i \in 1..Len(node.types) |-> getText(node.types[i])], " & ")
      [] node.kind = "ArrayType" -> getText(node.elementType) \o "[]"
      [] node.kind = "ParenthesizedType" -> "(" \o getText(node.type) \o ")"
      [] node.kind = "TypeReference" ->
            IF Len(node.typeArguments) = 0 THEN node.typeName
            ELSE node.typeName \o "<"
                 \o join([i \in 1..Len(node.typeArguments) |-> getText(node.typeArguments[i])], ", ")
                 \o ">"
      [] node.kind = "MappedType" -> "{[k in K]: V}"
      [] node.kind = "TypeLiteral" -> "{}"
      [] node.kind = "TypeOperator" -> "keyof " \o getText(node.type)
      [] node.kind = "ConditionalType" ->
            getText(node.checkType) \o " extends " \o getText(node.extendsType)
            \o " ? " \o getText(node.trueType) \o " : " \o getText(node.falseType)
      [] node.kind = "TypePredicate" -> "x is " \o getText(node.type)
      [] node.kind = "FunctionType" ->
            "(" \o join([i \in 1..Len(node.parameters) |->
                            node.parameters[i].name \o ": " \o getText(node.parameters[i].type)], ", ")
            \o ") => " \o getText(node.type)
      [] OTHER -> ""

\* utils.ts fromSingleToDoubleQuoted: every \' of the text becomes \" (the
\* first replace maps a double quote to itself).  The literal texts of the
\* inputs are escape-free but for the one listed here.
fromSingleToDoubleQuoted(singleQuoted) ==
    IF singleQuoted = "it\\'s" THEN "it\\\"s" ELSE singleQuoted

\* ir.ts getFqn.  The symbol of a type node belongs to the TypeScript type
\* checker; the nodes of the inputs take the two fallback branches, and the
\* span start:end of a node is represented by the text it covers.
getFqn(type, fallbackName) ==
    IF fallbackName # ""
    THEN "\"" \o MainFile \o "\"." \o fallbackName
    ELSE "\"" \o MainFile \o "\":" \o getText(type)

----------------------------------------------------------------------------
(* ir.ts: construction of the IR *)

UnknownType == [type |-> "unknown", fqn |-> "unknown"]
HandleType == [type |-> "handle", fqn |-> "handle"]
KeywordType(name, fqn) == [type |-> "keyword", name |-> name, fqn |-> fqn]

\* buildType.visitKeywordType
visitKeywordType(keyword) ==
    CASE keyword.kind = "AnyKeyword" -> KeywordType("Any", "any")
      [] keyword.kind = "UnknownKeyword" -> Error("unknown keyword not support")
      [] keyword.kind = "NumberKeyword" -> KeywordType("double", "double")
      [] keyword.kind = "BigIntKeyword" -> KeywordType("BigInt", "BigInt")
      [] keyword.kind = "ObjectKeyword" -> Error("object keyword not support")
      [] keyword.kind = "BooleanKeyword" -> KeywordType("bool", "bool")
      [] keyword.kind = "StringKeyword" -> KeywordType("string", "string")
      [] keyword.kind = "SymbolKeyword" -> Error("symbol keyword not support")
      [] keyword.kind = "ThisKeyword" -> Error("this keyword not support")
      [] keyword.kind = "VoidKeyword" -> KeywordType("void", "void")
      [] keyword.kind = "UndefinedKeyword" -> KeywordType("undefined", "undefined")
      [] keyword.kind = "NullKeyword" -> KeywordType("null", "null")
      [] keyword.kind = "NeverKeyword" -> Error("never keyword not support")
      [] OTHER -> Error("unknown keyword")

\* buildType.visitLiteralType
visitLiteralType(literal) ==
    IF literal.literal = "StringLiteral"
    THEN [type |-> "literal", name |-> "\"" \o fromSingleToDoubleQuoted(literal.text) \o "\"",
          fqn |-> getFqn(literal, ""), baseType |-> "string"]
    ELSE IF literal.literal = "NumericLiteral"
    THEN [type |-> "literal", name |-> getText(literal), fqn |-> getFqn(literal, ""),
          baseType |-> "number"]
    ELSE IF literal.literal \in {"TrueKeyword", "FalseKeyword"}
    THEN [type |-> "literal", name |-> getText(literal), fqn |-> getFqn(literal, ""),
          baseType |-> "bool"]
    ELSE Error("Literal is currently not supported")

\* union.types.findIndex(t => t.kind == ts.SyntaxKind.NullKeyword), 0-based, -1 if absent
findIndexNullKeyword(types) ==
    IF \E i \in 1..Len(types) : types[i].kind = "NullKeyword"
    THEN (CHOOSE i \in 1..Len(types) :
             /\ types[i].kind = "NullKeyword"
             /\ \A j \in 1..(i-1) : types[j].kind # "NullKeyword") - 1
    ELSE -1

\* getReferencedDeclaration: the symbol lookup that precedes the thunk
hasReferencedSymbol(type) == type.typeName \in ScopeNames

RECURSIVE buildType(_, _), iterateType(_), iterateTypes(_), buildParameters(_)

\* visitUnionType without the reclassification of the all-literal unions
visitUnionTypeWithoutLiteralUnion(union) ==
    LET idx == findIndexNullKeyword(union.types)
        Optional(baseType) ==
            IF IsError(baseType) THEN baseType
            ELSE [type |-> "optional", baseType |-> baseType, fqn |-> getFqn(union, "")]
        Union(types) ==
            IF FirstError(types) # None THEN FirstError(types)
            ELSE [type |-> "union", types |-> types, fqn |-> getFqn(union, "")] IN
    IF Len(union.types) = 2 /\ idx # -1
    THEN Optional(buildType(union.types[((idx + 1) % 2) + 1], FALSE))
    ELSE Union(iterateTypes(union.types))

\* buildType.visitUnionType
visitUnionType(union) ==
    LET idx == findIndexNullKeyword(union.types)
        Optional(baseType) ==
            IF IsError(baseType) THEN baseType
            ELSE [type |-> "optional", baseType |-> baseType, fqn |-> getFqn(union, "")]
        Union(types) ==
            IF FirstError(types) # None THEN FirstError(types)
            ELSE IF \A i \in 1..Len(types) : types[i].type = "literal"
            THEN IF \E i \in 1..Len(types) : types[i].baseType # types[1].baseType
                 THEN Error("Mixing of literal types is not supported")
                 ELSE [type |-> "literalunion", types |-> types, fqn |-> getFqn(union, ""),
                       baseType |-> types[1].baseType]
            ELSE [type |-> "union", types |-> types, fqn |-> getFqn(union, "")] IN
    IF Len(union.types) = 2 /\ idx # -1
    THEN Optional(buildType(union.types[((idx + 1) % 2) + 1], FALSE))
    ELSE Union(iterateTypes(union.types))

\* buildType.visitArrayType
visitArrayType(type) ==
    LET Array(elementType) ==
            IF IsError(elementType) THEN elementType
            ELSE [type |-> "array", elementType |-> elementType, fqn |-> getFqn(type, "")] IN
    Array(buildType(type.elementType, FALSE))

\* buildType.visitMappedType
visitMappedType(decl) == [type |-> "mapped", fqn |-> getFqn(decl, "")]

\* buildTemplateArguments
buildTemplateArguments(typeArguments) ==
    [i \in 1..Len(typeArguments) |-> buildType(typeArguments[i], FALSE)]

\* buildType.visitTypeReference
visitTypeReference(type) ==
    LET Reference(templateArguments) ==
            IF FirstError(templateArguments) # None THEN FirstError(templateArguments)
            ELSE [type |-> "reference", name |-> type.typeName,
                  templateArguments |-> templateArguments,
                  fqn |-> getFqn(type, type.typeName)] IN
    IF ~hasReferencedSymbol(type) THEN Error("Cannot find symbol " \o type.typeName)
    ELSE Reference(buildTemplateArguments(type.typeArguments))

\* buildType.visitFunctionType
visitFunctionType(decl) ==
    LET Function(parameters, returnType) ==
            IF FirstErrorType(parameters) # None THEN FirstErrorType(parameters)
            ELSE IF IsError(returnType) THEN returnType
            ELSE [type |-> "function", returnType |-> returnType, parameters |-> parameters,
                  templateParameters |-> decl.typeParameters, fqn |-> getFqn(decl, "")] IN
    Function(buildParameters(decl.parameters), buildType(decl.type, FALSE))

\* buildType.visitIntersectionType
visitIntersectionType(decl) ==
    LET Intersection(types) ==
            IF FirstError(types) # None THEN FirstError(types)
            ELSE [type |-> "intersection", types |-> types, fqn |-> getFqn(decl, "")] IN
    Intersection(iterateTypes(decl.types))

\* buildType.visitParenthesizedType
visitParenthesizedType(decl) == iterateType(decl.type)

\* buildType.visitConditionalType
visitConditionalType(type) ==
    LET Conditional(parts) ==
            IF FirstError(parts) # None THEN FirstError(parts)
            ELSE [type |-> "conditional", checkType |-> parts[1], extendsType |-> parts[2],
                  trueType |-> parts[3], falseType |-> parts[4], fqn |-> getFqn(type, "")] IN
    Conditional([i \in 1..4 |->
                    buildType(<< type.checkType, type.extendsType,
                                 type.trueType, type.falseType >>[i], FALSE)])

\* buildType.visitTypePredicateNode
visitTypePredicateNode(type) ==
    LET Predicate(targetType) ==
            IF IsError(targetType) THEN targetType
            ELSE [type |-> "predicate", targetType |-> targetType, fqn |-> targetType.fqn] IN
    Predicate(buildType(type.type, FALSE))

\* visitor iterateType with the visitor of buildType and def = unknown.
\* visitTypeOperator and visitTypeLiteral return unknown.  The inputs hold
\* no indexed access type, whose IR depends on the type checker alone.
iterateType(type) ==
    CASE type.kind = "undefined" -> UnknownType
      [] type.kind = "TypeReference" -> visitTypeReference(type)
      [] isKeyword(type) -> visitKeywordType(type)
      [] type.kind = "UnionType" -> visitUnionType(type)
      [] type.kind = "LiteralType" -> visitLiteralType(type)
      [] type.kind = "ArrayType" -> visitArrayType(type)
      [] type.kind = "MappedType" -> visitMappedType(type)
      [] type.kind = "FunctionType" -> visitFunctionType(type)
      [] type.kind = "IntersectionType" -> visitIntersectionType(type)
      [] type.kind = "ParenthesizedType" -> visitParenthesizedType(type)
      [] type.kind = "TypeOperator" -> UnknownType
      [] type.kind = "TypeLiteral" -> UnknownType
      [] type.kind = "ConditionalType" -> visitConditionalType(type)
      [] type.kind = "TypePredicate" -> visitTypePredicateNode(type)
      [] OTHER -> UnknownType

\* visitor iterateTypes: every result is an object, so its filter keeps all
iterateTypes(types) == [i \in 1..Len(types) |-> iterateType(types[i])]

\* buildType: the visited type, wrapped in optional under a question token
buildType(type, optional) ==
    LET Type(baseType) ==
            IF IsError(baseType) THEN baseType
            ELSE IF optional
            THEN [type |-> "optional", baseType |-> baseType, fqn |-> baseType.fqn]
            ELSE baseType IN
    Type(iterateType(type))

\* buildParameters; a failed parameter carries the error as its type
buildParameters(parameters) ==
    [i \in 1..Len(parameters) |->
        [type |-> buildType(parameters[i].type, parameters[i].questionToken),
         name |-> parameters[i].name]]

\* buildTemplateParameters: the names of the type parameters
buildTemplateParameters(typeParameters) == typeParameters

\* buildMethod
buildMethod(method) ==
    LET Method(parameters, returnType) ==
            IF FirstErrorType(parameters) # None THEN FirstErrorType(parameters)
            ELSE IF IsError(returnType) THEN returnType
            ELSE [memberType |-> "method", name |-> method.name,
                  templateArguments |-> buildTemplateParameters(method.typeParameters),
                  parameters |-> parameters, returnType |-> returnType] IN
    Method(buildParameters(method.parameters),
           buildType(method.type, method.questionToken))

\* buildStruct.visitPropertySignature
visitPropertySignature(decl) ==
    LET Property(type) ==
            IF IsError(type) THEN type
            ELSE [memberType |-> "property", name |-> decl.name, type |-> type] IN
    Property(buildType(decl.type, decl.questionToken))

\* buildStruct: the members through iterateDeclarations, in order
buildStruct(decl) ==
    LET Struct(members) ==
            IF FirstError(members) # None THEN FirstError(members)
            ELSE [declaration |-> "struct", name |-> decl.name,
                  templateArguments |-> buildTemplateParameters(decl.typeParameters),
                  members |-> members, sourceFile |-> decl.fileName] IN
    Struct([i \in 1..Len(decl.members) |->
                IF decl.members[i].kind = "MethodSignature"
                THEN buildMethod(decl.members[i])
                ELSE visitPropertySignature(decl.members[i])])

\* getEnumMemberType
getEnumMemberType(member) ==
    IF member.flags = "NumberLiteral" THEN "number"
    ELSE IF member.flags = "Enum" THEN "enum"
    ELSE IF member.flags = "StringLiteral" THEN "string"
    ELSE "error"

\* buildEnumMember
buildEnumMember(member) ==
    [name |-> member.name,
     value |-> IF member.initializer # "" THEN member.initializer
               ELSE "\"" \o member.name \o "\"",
     type |-> getEnumMemberType(member)]

\* irVisitor.visitEnum
visitEnum(decl) ==
    LET Enum(members) ==
            IF \E i \in 1..Len(members) : members[i].type = "error"
            THEN Error("Unsupported enum member type")
            ELSE [declaration |-> "enum", name |-> decl.name,
                  members |-> members, sourceFile |-> decl.fileName] IN
    Enum([i \in 1..Len(decl.members) |-> buildEnumMember(decl.members[i])])

\* irVisitor.visitFunctionDeclaration
visitFunctionDeclaration(decl) ==
    LET Function(returnType, parameters) ==
            IF IsError(returnType) THEN returnType
            ELSE IF FirstErrorType(parameters) # None THEN FirstErrorType(parameters)
            ELSE [declaration |-> "function", name |-> decl.name,
                  returnType |-> returnType,
                  templateParameters |-> buildTemplateParameters(decl.typeParameters),
                  parameters |-> parameters, sourceFile |-> decl.fileName] IN
    Function(buildType(decl.type, decl.questionToken),
             buildParameters(decl.parameters))

\* irVisitor.visitTypeParameterDeclaration; an absent constraint or default is null
visitTypeParameterDeclaration(decl) ==
    LET TypeParameter(constraint, def) ==
            IF IsError(constraint) THEN constraint
            ELSE IF IsError(def) THEN def
            ELSE [declaration |-> "typeparameter", name |-> decl.name,
                  constraint |-> constraint, def |-> def, sourceFile |-> decl.fileName] IN
    TypeParameter(IF decl.constraint.kind = "undefined" THEN None
                  ELSE buildType(decl.constraint, FALSE),
                  IF decl.default.kind = "undefined" THEN None
                  ELSE buildType(decl.default, FALSE))

\* buildAliasDeclaration
buildAliasDeclaration(decl) ==
    LET Alias(type) ==
            IF IsError(type) THEN type
            ELSE [declaration |-> "alias",
                  templateArguments |-> buildTemplateParameters(decl.typeParameters),
                  name |-> decl.name, type |-> type, sourceFile |-> decl.fileName] IN
    Alias(buildType(decl.type, FALSE))

\* iterateDeclarations over one statement with the visitor of irVisitor
visitDeclaration(declaration) ==
    CASE declaration.kind = "InterfaceDeclaration" -> buildStruct(declaration)
      [] declaration.kind = "EnumDeclaration" -> visitEnum(declaration)
      [] declaration.kind = "FunctionDeclaration" -> visitFunctionDeclaration(declaration)
      [] declaration.kind = "TypeParameter" -> visitTypeParameterDeclaration(declaration)
      [] declaration.kind = "TypeAliasDeclaration" -> buildAliasDeclaration(declaration)
      [] OTHER -> Error("no declaration visitor for kind " \o declaration.kind)

\* iterateDeclarations over the statements of the source file
iterateDeclarations(decls) ==
    LET Result(built) ==
            IF FirstError(built) # None THEN FirstError(built) ELSE [value |-> built] IN
    Result([i \in 1..Len(decls) |-> visitDeclaration(decls[i])])

\* buildDeclaration, the body of the thunk of a reference
buildDeclaration(declaration) == visitDeclaration(declaration)

\* the declaration each thunk of getReferencedDeclaration builds
ScopeDeclarations == [n \in ScopeNames |-> buildDeclaration(Scope[n])]

\* type.declaration(): the thunk getReferencedDeclaration returns
Declaration(type) == scope[type.name]

----------------------------------------------------------------------------
(* utils.ts: handle test, symbol mangler, boundary reducer *)

RECURSIVE hasTypeGotHandle(_)
hasTypeGotHandle(type) ==
    CASE type.type \in {"intersection", "union"} -> FALSE
      [] type.type = "reference" ->
            LET Switch(declaration) ==
                    CASE declaration.declaration = "struct" -> TRUE
                      [] declaration.declaration = "alias" -> hasTypeGotHandle(declaration.type)
                      [] declaration.declaration = "enum" -> FALSE
                      [] declaration.declaration = "typeparameter" -> FALSE
                      [] OTHER -> Error("unknown declaration " \o declaration.declaration) IN
            Switch(Declaration(type))
      [] type.type = "instantiated" -> TRUE
      [] type.type \in {"array", "function"} -> FALSE
      [] type.type = "optional" -> FALSE
      [] type.type = "handle" -> FALSE
      [] OTHER -> FALSE

\* enum FunctionKind
FunctionKind_setter == 0
FunctionKind_getter == 1
FunctionKind_root == 2
FunctionKind_nomangle == 3

FunctionKinds == {FunctionKind_setter, FunctionKind_getter, FunctionKind_root, FunctionKind_nomangle}

\* mangleFunctionName.getPostfix
getPostfix(kind) ==
    CASE kind = FunctionKind_setter -> "_s"
      [] kind = FunctionKind_getter -> "_g"
      [] kind = FunctionKind_root -> "_r"
      [] kind = FunctionKind_nomangle -> ""

\* the mangler with the overloads of the TODO: the arity enters the name
mangleFunctionNameWithArity(name, args, kind) ==
    name \o getPostfix(kind) \o (IF Len(args) > 0 THEN ToString(Len(args)) ELSE "")

mangleFunctionName(name, args, kind) == name \o getPostfix(kind)

mangleMethod(struct, member, args, kind) ==
    mangleFunctionName(struct.name \o "_" \o member.name, args, kind)

isVoid(type) == type.type = "keyword" /\ type.name = "void"

isNotVoid(type) == ~isVoid(type)

RECURSIVE isLiteralOrUndefinedType(_)
isLiteralOrUndefinedType(type) ==
    IF type.type = "literal" THEN TRUE
    ELSE IF type.type = "keyword" /\ type.name = "undefined" THEN TRUE
    ELSE IF type.type = "optional" THEN isLiteralOrUndefinedType(type.baseType)
    ELSE FALSE

getBindingType(type) ==
    CASE type.type \in {"intersection", "union"} -> type
      [] type.type = "literalunion" ->
            [type |-> "keyword", fqn |-> type.baseType, name |-> type.baseType]
      [] type.type = "reference" ->
            LET Switch(declaration) ==
                    CASE declaration.declaration = "struct" -> HandleType
                      [] declaration.declaration = "alias" ->
                            IF hasTypeGotHandle(declaration.type) THEN HandleType
                            ELSE IF Len(type.templateArguments) = 0 THEN type
                            ELSE [type |-> "instantiated", name |-> type.name,
                                  baseType |-> declaration.type,
                                  templateArguments |-> type.templateArguments,
                                  fqn |-> type.fqn \o "<"
                                          \o join([i \in 1..Len(type.templateArguments) |->
                                                      type.templateArguments[i].fqn], ",")
                                          \o ">"]
                      [] declaration.declaration = "enum" -> type
                      [] declaration.declaration = "typeparameter" -> type
                      [] OTHER -> Error("getBindingType not implemented for reference to "
                                        \o declaration.declaration) IN
            Switch(Declaration(type))
      [] type.type = "unknown" -> Error("Cannot pass unknown types across boundary")
      [] type.type = "literal" -> type
      [] type.type = "keyword" -> type
      [] type.type = "array" -> type
      [] type.type = "mapped" -> HandleType
      [] type.type = "function" -> type
      [] type.type = "conditional" -> Error("Cannot pass contional types across boundary")
      [] type.type = "optional" -> type
      [] type.type = "indexed" -> type
      [] type.type = "predicate" -> [type |-> "keyword", name |-> "bool", fqn |-> type.fqn]
      [] type.type = "handle" -> type
      [] OTHER -> Error("Cannot get binding type for " \o type.type)

----------------------------------------------------------------------------
(* dwrappers.ts: the private copy of the mangler *)

DWrappers_getPostfix(kind) ==
    CASE kind = FunctionKind_setter -> "_s"
      [] kind = FunctionKind_getter -> "_g"
      [] kind = FunctionKind_root -> "_r"
      [] kind = FunctionKind_nomangle -> ""

DWrappers_mangleFunctionName(name, args, kind) == name \o DWrappers_getPostfix(kind)

DWrappers_mangleMethod(struct, member, args, kind) ==
    DWrappers_mangleFunctionName(struct.name \o "_" \o member.name, args, kind)

----------------------------------------------------------------------------
(* dbindings.ts: the foreign-linkage generator.  A function that returns  *)
(* text returns [text |-> ...], or the Error it throws.                    *)

Text(text) == [text |-> text]

\* the template literal `${prefix}${result}${suffix}`, or the error of result
Template(prefix, result, suffix) ==
    IF IsError(result) THEN result ELSE Text(prefix \o result.text \o suffix)

\* the texts of a sequence of results joined by sep, or its first error
JoinTexts(results, sep) ==
    IF FirstError(results) # None THEN FirstError(results)
    ELSE Text(join([i \in 1..Len(results) |-> results[i].text], sep))

RECURSIVE DBindings_typeToString(_), DBindings_parameterToString(_)

DBindings_templateArgumentsToString(arg) ==
    IF Len(arg) = 0 THEN Text("")
    ELSE Template("!(", JoinTexts([i \in 1..Len(arg) |-> DBindings_typeToString(arg[i])], ", "), ")")

DBindings_typeToString(type) ==
    CASE type.type = "intersection" ->
            Template("IntersectionType!(",
                     JoinTexts([i \in 1..Len(type.types) |-> DBindings_typeToString(type.types[i])], ", "),
                     ")")
      [] type.type = "union" ->
            Template("UnionType!(",
                     JoinTexts([i \in 1..Len(type.types) |-> DBindings_typeToString(type.types[i])], ", "),
                     ")")
      [] type.type = "literalunion" ->
            Template("OneOf!(",
                     JoinTexts([i \in 1..Len(type.types) |-> DBindings_typeToString(type.types[i])], ", "),
                     ")")
      [] type.type = "reference" ->
            Template(type.name, DBindings_templateArgumentsToString(type.templateArguments), "")
      [] type.type = "unknown" -> Text("Unknown")
      [] type.type = "literal" -> Text(type.name)
      [] type.type = "keyword" -> Text(type.name)
      [] type.type = "array" -> Text("uint, uint")
      [] type.type = "mapped" -> Text("Mapped")
      [] type.type = "function" ->
            JoinTexts(<< DBindings_typeToString(type.returnType),
                         Template("delegate(",
                                  JoinTexts([i \in 1..Len(type.parameters) |->
                                                DBindings_parameterToString(type.parameters[i])], ", "),
                                  ")") >>, " ")
      [] type.type = "conditional" -> Text("Conditional")
      [] type.type = "optional" ->
            Template("Optional!(", DBindings_typeToString(type.baseType), ")")
      [] type.type = "indexed" ->
            Template("GetMemberType!(",
                     JoinTexts(<< DBindings_typeToString(type.indexType),
                                  DBindings_typeToString(type.objectType) >>, ", "),
                     ")")
      [] type.type = "predicate" -> Text("bool")
      [] type.type = "instantiated" ->
            Template(type.name, DBindings_templateArgumentsToString(type.templateArguments), "")
      [] type.type = "handle" -> Text("Handle")
      [] OTHER -> Error("Cannot map type to string")

DBindings_parameterToString(param) ==
    LET Switch(bindingType) ==
            IF IsError(bindingType) THEN bindingType
            ELSE IF bindingType.type = "optional"
            THEN Template("bool, ",
                          DBindings_parameterToString([type |-> bindingType.baseType,
                                                       name |-> param.name]),
                          "")
            ELSE DBindings_typeToString(bindingType) IN
    Switch(getBindingType(param.type))

DBindings_functionParameterToArgument(param) == [symbol |-> param.name, type |-> param.type]

\* the line `extern (C) ${result} ${name}(${parameters});`
ExternC(result, name, parameters) ==
    [result |-> result, name |-> name, parameters |-> parameters,
     text |-> "extern (C) " \o result \o " " \o name \o "(" \o join(parameters, ", ") \o ");"]

\* the lines of a declaration with the parameter texts of
\* parameters.map(parameterToString), or the first error
ExternCLines(result, mangledName, parameters) ==
    IF IsError(result) THEN result
    ELSE IF FirstError(parameters) # None THEN FirstError(parameters)
    ELSE [lines |-> << ExternC(result.text, mangledName,
                               [i \in 1..Len(parameters) |-> parameters[i].text]) >>]

\* structMemberToString: the lines of one member (none for a suppressed
\* property, getter and setter for a property, one for a method)
DBindings_structMemberToString(member, struct) ==
    LET selfParameter == [name |-> "self", type |-> HandleType] IN
    IF member.memberType = "property"
    THEN IF isLiteralOrUndefinedType(member.type) THEN [lines |-> <<>>]
         ELSE LET getMangledName == mangleMethod(struct, member, <<>>, FunctionKind_getter)
                  propertyParameter == [name |-> member.name, type |-> member.type]
                  argument == DBindings_functionParameterToArgument(propertyParameter)
                  setMangledName == mangleMethod(struct, member, <<argument>>, FunctionKind_setter)
                  Lines(result, parameter) ==
                      IF IsError(result) THEN result
                      ELSE IF IsError(parameter) THEN parameter
                      ELSE [lines |-> << ExternC(result.text, getMangledName, <<"Handle">>),
                                         ExternC("void", setMangledName,
                                                 <<"Handle", parameter.text>>) >>] IN
              Lines(DBindings_typeToString(member.type),
                    DBindings_parameterToString(propertyParameter))
    ELSE LET bindingArguments == <<DBindings_functionParameterToArgument(selfParameter)>>
                                 \o [i \in 1..Len(member.parameters) |->
                                        DBindings_functionParameterToArgument(member.parameters[i])]
             mangledName == mangleMethod(struct, member, bindingArguments, FunctionKind_nomangle) IN
         ExternCLines(DBindings_typeToString(member.returnType), mangledName,
                      [i \in 1..Len(member.parameters) |->
                          DBindings_parameterToString(member.parameters[i])])

\* structToString: the lines of the members, in order
DBindings_structToString(struct) ==
    LET Lines(members) ==
            IF FirstError(members) # None THEN FirstError(members)
            ELSE [lines |-> concatAll([i \in 1..Len(members) |-> members[i].lines])] IN
    Lines([i \in 1..Len(struct.members) |->
              DBindings_structMemberToString(struct.members[i], struct)])

DBindings_functionToString(func) ==
    LET bindingArguments == [i \in 1..Len(func.parameters) |->
                                [symbol |-> func.parameters[i].name, type |-> func.parameters[i].type]]
        mangledName == mangleFunctionName(func.name, bindingArguments, FunctionKind_root) IN
    ExternCLines(DBindings_typeToString(func.returnType), mangledName,
                 [i \in 1..Len(func.parameters) |->
                     DBindings_parameterToString(func.parameters[i])])

\* generateDBindingCode: one block of lines per function and struct, the
\* empty blocks filtered out
generateDBindingCode(decls) ==
    LET Code(blocks) ==
            IF FirstError(blocks) # None THEN FirstError(blocks)
            ELSE [value |-> SelectSeq([i \in 1..Len(blocks) |-> blocks[i].lines],
                                      LAMBDA b : Len(b) > 0)] IN
    Code([i \in 1..Len(decls) |->
             CASE decls[i].declaration = "function" -> DBindings_functionToString(decls[i])
               [] decls[i].declaration = "struct" -> DBindings_structToString(decls[i])
               [] OTHER -> [lines |-> <<>>]])

----------------------------------------------------------------------------
(* dwrappers.ts: the wrapper generator for top-level functions.  The      *)
(* private hasTypeGotHandle returns [value |-> boolean], or the Error it  *)
(* throws.                                                                 *)

RECURSIVE DWrappers_typeToString(_, _), DWrappers_parameterToString(_)

DWrappers_templateArgumentsToString(arg) ==
    IF Len(arg) = 0 THEN Text("")
    ELSE Template("!(",
                  JoinTexts([i \in 1..Len(arg) |-> DWrappers_typeToString(arg[i], FALSE)], ", "),
                  ")")

DWrappers_typeToString(type, optional) ==
    CASE type.type = "intersection" ->
            Template("IntersectionType!(",
                     JoinTexts([i \in 1..Len(type.types) |->
                                   DWrappers_typeToString(type.types[i], FALSE)], ", "),
                     ")")
      [] type.type = "union" ->
            Template("UnionType!(",
                     JoinTexts([i \in 1..Len(type.types) |->
                                   DWrappers_typeToString(type.types[i], FALSE)], ", "),
                     ")")
      [] type.type = "literalunion" ->
            Template("OneOf!(",
                     JoinTexts([i \in 1..Len(type.types) |->
                                   DWrappers_typeToString(type.types[i], FALSE)], ", "),
                     ")")
      [] type.type = "reference" ->
            Template(type.name, DWrappers_templateArgumentsToString(type.templateArguments), "")
      [] type.type = "unknown" -> Text("Unknown")
      [] type.type = "literal" -> Text(type.name)
      [] type.type = "keyword" -> Text(type.name)
      [] type.type = "array" ->
            Template("", DWrappers_typeToString(type.elementType, FALSE), "[]")
      [] type.type = "mapped" -> Text("Mapped")
      [] type.type = "function" ->
            JoinTexts(<< DWrappers_typeToString(type.returnType, FALSE),
                         Template("delegate(",
                                  JoinTexts([i \in 1..Len(type.parameters) |->
                                                DWrappers_parameterToString(type.parameters[i])], ", "),
                                  ")") >>, " ")
      [] type.type = "conditional" -> Text("Conditional")
      [] type.type = "optional" ->
            Template("Optional!(", DWrappers_typeToString(type.baseType, FALSE), ")")
      [] type.type = "indexed" ->
            Template("GetMemberType!(",
                     JoinTexts(<< DWrappers_typeToString(type.indexType, FALSE),
                                  DWrappers_typeToString(type.objectType, FALSE) >>, ", "),
                     ")")
      [] type.type = "predicate" -> Text("bool")
      [] OTHER -> Error("Cannot map type " \o type.type \o " to string")

DWrappers_templateParametersToString(args) ==
    IF Len(args) = 0 THEN "" ELSE "(" \o join(args, ",") \o ")"

\* a parameter of buildParameters has no field optional: undefined is passed
DWrappers_parameterToString(param) ==
    Template("", DWrappers_typeToString(param.type, FALSE), " " \o param.name)

RECURSIVE DWrappers_hasTypeGotHandle(_)
DWrappers_hasTypeGotHandle(type) ==
    CASE type.type \in {"intersection", "union"} -> [value |-> FALSE]
      [] type.type = "reference" ->
            LET Switch(declaration) ==
                    CASE declaration.declaration = "struct" -> [value |-> TRUE]
                      [] declaration.declaration = "alias" ->
                            DWrappers_hasTypeGotHandle(declaration.type)
                      [] declaration.declaration = "enum" -> [value |-> FALSE]
                      [] OTHER -> Error("unknown declaration " \o declaration.declaration) IN
            Switch(Declaration(type))
      [] type.type \in {"array", "function"} -> [value |-> FALSE]
      [] type.type = "optional" -> [value |-> FALSE]
      [] type.type = "handle" -> [value |-> FALSE]
      [] OTHER -> [value |-> FALSE]

DWrappers_argumentToString(arg) ==
    LET Argument(handle) ==
            IF IsError(handle) THEN handle
            ELSE IF handle.value THEN Text(arg.symbol \o ".handle")
            ELSE Text(arg.symbol) IN
    Argument(DWrappers_hasTypeGotHandle(arg.type))

DWrappers_generateBindingCall(mangledName, args) ==
    Template(mangledName \o "(",
             JoinTexts([i \in 1..Len(args) |-> DWrappers_argumentToString(args[i])], ", "),
             ")")

\* callText is the text of the binding call, or the error its evaluation threw
DWrappers_wrapBindingCallReturn(returnType, callText) ==
    LET Wrap(handle) ==
            IF IsError(handle) THEN handle
            ELSE IF handle.value
            THEN JoinTexts(<< DWrappers_typeToString(returnType, FALSE), Text("("),
                              callText, Text(")") >>, "")
            ELSE callText IN
    IF IsError(callText) THEN callText ELSE Wrap(DWrappers_hasTypeGotHandle(returnType))

DWrappers_isNotVoid(type) == ~(type.type = "keyword" /\ type.name = "void")

DWrappers_wrapWithReturnIfNotVoid(returnType, callText) ==
    IF DWrappers_isNotVoid(returnType)
    THEN Template("return ", DWrappers_wrapBindingCallReturn(returnType, callText), "")
    ELSE callText

DWrappers_functionParameterToArgument(param) == [symbol |-> param.name, type |-> param.type]

\* Array.some over the results of the handle test: the first result that
\* is true or an error ends the iteration
DWrappers_some(results) ==
    LET Stops(i) == IsError(results[i]) \/ results[i].value
        First(stops) ==
            IF stops = {} THEN [value |-> FALSE]
            ELSE results[CHOOSE i \in stops : \A j \in stops : i <= j] IN
    First({ i \in 1..Len(results) : Stops(i) })

DWrappers_doesFunctionNeedWrapper(func) ==
    LET Needs(returnTypeNeedsWrapper, paramNeedsWrapper) ==
            IF IsError(returnTypeNeedsWrapper) THEN returnTypeNeedsWrapper
            ELSE IF IsError(paramNeedsWrapper) THEN paramNeedsWrapper
            ELSE [value |-> returnTypeNeedsWrapper.value \/ paramNeedsWrapper.value] IN
    Needs(IF DWrappers_isNotVoid(func.returnType)
          THEN DWrappers_hasTypeGotHandle(func.returnType)
          ELSE [value |-> FALSE],
          DWrappers_some([i \in 1..Len(func.parameters) |->
                             DWrappers_hasTypeGotHandle(func.parameters[i].type)]))

\* functionToString: the text of the wrapper, "" for a function that needs none
DWrappers_functionToString(func) ==
    LET bindingArguments == [i \in 1..Len(func.parameters) |->
                                [symbol |-> func.parameters[i].name,
                                 type |-> func.parameters[i].type]]
        templateParameters == DWrappers_templateParametersToString(func.templateParameters)
        mangledName == DWrappers_mangleFunctionName(func.name, bindingArguments, FunctionKind_root)
        Wrapper(parameters, bindingCall, returnType) ==
            IF IsError(parameters) THEN parameters
            ELSE IF IsError(bindingCall) THEN bindingCall
            ELSE IF IsError(returnType) THEN returnType
            ELSE Text(returnType.text \o " " \o func.name \o templateParameters
                      \o "(" \o parameters.text \o ") {\n    "
                      \o bindingCall.text \o ";\n}")
        Decide(needed) ==
            IF IsError(needed) THEN needed
            ELSE IF ~needed.value THEN Text("")
            ELSE Wrapper(JoinTexts([i \in 1..Len(func.parameters) |->
                                       DWrappers_parameterToString(func.parameters[i])], ", "),
                         DWrappers_wrapWithReturnIfNotVoid(
                             func.returnType,
                             DWrappers_generateBindingCall(mangledName, bindingArguments)),
                         DWrappers_typeToString(func.returnType, FALSE)) IN
    Decide(DWrappers_doesFunctionNeedWrapper(func))

\* structMemberToString of dwrappers.ts: the text of the member and the
\* foreign-linkage names its code calls; the empty text for a property
\* whose type is a literal or the keyword undefined; or the Error thrown
DWrappers_structMemberToString(member, struct) ==
    LET selfArgument == [symbol |-> "this.handle", type |-> [type |-> "handle"]]
        Property(getMangledName, setMangledName, typeText, getterCall, setterCall) ==
            IF IsError(typeText) THEN typeText
            ELSE IF IsError(getterCall) THEN getterCall
            ELSE IF IsError(setterCall) THEN setterCall
            ELSE [text |-> "    " \o typeText.text \o " " \o member.name \o "() {\n"
                           \o "        return " \o getterCall.text \o ";\n"
                           \o "    }\n"
                           \o "    void " \o member.name \o "(" \o typeText.text \o " "
                           \o member.name \o ") {\n"
                           \o "        " \o setterCall.text \o ";\n"
                           \o "    }",
                  calls |-> << getMangledName, setMangledName >>]
        Method(mangledName, typeText, parameters, bindingCall) ==
            IF IsError(parameters) THEN parameters
            ELSE IF IsError(bindingCall) THEN bindingCall
            ELSE IF IsError(typeText) THEN typeText
            ELSE [text |-> "    " \o typeText.text \o " " \o member.name
                           \o DWrappers_templateParametersToString(member.templateArguments)
                           \o "(" \o parameters.text \o ") {\n"
                           \o "        " \o bindingCall.text \o ";\n"
                           \o "    }",
                  calls |-> << mangledName >>] IN
    IF member.memberType = "property"
    THEN IF member.type.type = "literal" THEN [text |-> "", calls |-> << >>]
         ELSE IF member.type.type = "keyword" /\ member.type.name = "undefined"
         THEN [text |-> "", calls |-> << >>]
         ELSE Property(
                  DWrappers_mangleMethod(struct, member, << >>, FunctionKind_getter),
                  DWrappers_mangleMethod(struct, member,
                                         << [symbol |-> member.name, type |-> member.type] >>,
                                         FunctionKind_setter),
                  DWrappers_typeToString(member.type, FALSE),
                  DWrappers_wrapBindingCallReturn(
                      member.type,
                      DWrappers_generateBindingCall(
                          DWrappers_mangleMethod(struct, member, << >>, FunctionKind_getter),
                          << selfArgument >>)),
                  DWrappers_generateBindingCall(
                      DWrappers_mangleMethod(struct, member,
                                             << [symbol |-> member.name,
                                                 type |-> member.type] >>,
                                             FunctionKind_setter),
                      << selfArgument, [symbol |-> member.name, type |-> member.type] >>))
    ELSE LET bindingArguments ==
                 << selfArgument >>
                 \o [i \in 1..Len(member.parameters) |->
                        DWrappers_functionParameterToArgument(member.parameters[i])] IN
         Method(DWrappers_mangleMethod(struct, member, bindingArguments,
                                       FunctionKind_nomangle),
                DWrappers_typeToString(member.returnType, FALSE),
                JoinTexts([i \in 1..Len(member.parameters) |->
                              DWrappers_parameterToString(member.parameters[i])], ", "),
                DWrappers_wrapWithReturnIfNotVoid(
                    member.returnType,
                    DWrappers_generateBindingCall(
                        DWrappers_mangleMethod(struct, member, bindingArguments,
                                               FunctionKind_nomangle),
                        bindingArguments)))

\* structToString of dwrappers.ts: the members of the struct, those with
\* an empty text filtered out; or the first Error
DWrappers_structToString(struct) ==
    LET Members(members) ==
            IF FirstError(members) # None THEN FirstError(members)
            ELSE [members |-> SelectSeq(members, LAMBDA m : m.text # "")] IN
    Members([i \in 1..Len(struct.members) |->
                DWrappers_structMemberToString(struct.members[i], struct)])

----------------------------------------------------------------------------

(* jsgenerator.ts: the marshalling generator.  A function that returns a  *)
(* boolean returns [value |-> boolean], or the Error it throws.            *)

RECURSIVE canTypeBeReturned(_)
canTypeBeReturned(type) ==
    IF isVoid(type) THEN [value |-> TRUE]
    ELSE IF hasTypeGotHandle(type) THEN [value |-> TRUE]
    ELSE CASE type.type = "predicate" -> [value |-> TRUE]
           [] type.type = "keyword" /\ type.name = "string" -> [value |-> FALSE]
           [] type.type = "keyword" /\ type.name = "bool" -> [value |-> TRUE]
           [] type.type = "keyword" /\ type.name = "double" -> [value |-> TRUE]
           [] type.type = "reference" ->
                 LET Switch(declaration) ==
                         CASE declaration.declaration = "struct" -> [value |-> TRUE]
                           [] declaration.declaration = "alias" ->
                                 canTypeBeReturned(declaration.type)
                           [] declaration.declaration = "enum" ->
                                 [value |-> \A i \in 1..Len(declaration.members) :
                                               declaration.members[i].type \in {"number", "enum"}]
                           [] declaration.declaration = "typeparameter" -> [value |-> TRUE]
                           [] OTHER -> Error("missing case for canTypeBeReturned") IN
                 Switch(Declaration(type))
           [] type.type = "union" -> [value |-> FALSE]
           [] type.type = "intersection" -> [value |-> TRUE]
           [] type.type = "literalunion" -> [value |-> type.baseType # "string"]
           [] type.type = "mapped" -> [value |-> FALSE]
           [] type.type = "optional" -> [value |-> FALSE]
           [] type.type = "function" -> [value |-> FALSE]
           [] type.type = "array" -> [value |-> FALSE]
           [] type.type = "indexed" -> [value |-> TRUE]
           [] OTHER -> Error("missing case for canTypeBeReturned")

\* extractTypesFromFunction
extractTypesFromFunction(func) ==
    [encoders |-> << func.returnType >>,
     decoders |-> [i \in 1..Len(func.parameters) |-> func.parameters[i].type]]

\* a.encoders.concat(b.encoders), a.decoders.concat(b.decoders) over the
\* interfaces; Array.reduce without an initial value throws on an empty array
ReduceTypeInterfaces(interfaces) ==
    IF Len(interfaces) = 0 THEN Error("Reduce of empty array with no initial value")
    ELSE [encoders |-> concatAll([i \in 1..Len(interfaces) |-> interfaces[i].encoders]),
          decoders |-> concatAll([i \in 1..Len(interfaces) |-> interfaces[i].decoders])]

\* extractTypesFromStruct
extractTypesFromStruct(declaration) ==
    ReduceTypeInterfaces(
        [i \in 1..Len(declaration.members) |->
            IF declaration.members[i].memberType = "method"
            THEN [encoders |-> << declaration.members[i].returnType >>,
                  decoders |-> [j \in 1..Len(declaration.members[i].parameters) |->
                                   declaration.members[i].parameters[j].type]]
            ELSE [encoders |-> << declaration.members[i].type >>,
                  decoders |-> << declaration.members[i].type >>]])

\* extractBaseTypes: the members, base types and element types nested in types
RECURSIVE extractBaseTypes(_)
extractBaseTypes(types) ==
    concatAll([i \in 1..Len(types) |->
        CASE types[i].type = "union" ->
                types[i].types \o extractBaseTypes(types[i].types)
          [] types[i].type = "optional" ->
                << types[i].baseType >> \o extractBaseTypes(<< types[i].baseType >>)
          [] types[i].type = "array" ->
                << types[i].elementType >> \o extractBaseTypes(<< types[i].elementType >>)
          [] OTHER -> << >>])

\* extractTypesFromDeclarations: the types of the functions and structs,
\* then their nested types, without the literal and undefined types
extractTypesFromDeclarations(decls) ==
    LET selected == SelectSeq(decls, LAMBDA d : d.declaration \in {"function", "struct"})
        Extract(interfaces) ==
            IF FirstError(interfaces) # None THEN FirstError(interfaces)
            ELSE IF Len(interfaces) = 0
            THEN Error("Reduce of empty array with no initial value")
            ELSE LET types == ReduceTypeInterfaces(interfaces) IN
                 [encoders |-> SelectSeq(types.encoders \o extractBaseTypes(types.encoders),
                                         LAMBDA t : ~isLiteralOrUndefinedType(t)),
                  decoders |-> SelectSeq(types.decoders \o extractBaseTypes(types.decoders),
                                         LAMBDA t : ~isLiteralOrUndefinedType(t))] IN
    Extract([i \in 1..Len(selected) |->
                IF selected[i].declaration = "function"
                THEN extractTypesFromFunction(selected[i])
                ELSE extractTypesFromStruct(selected[i])])

\* utils.ts getSafeIdentifier(name.replace("\"", "")), by the names of the
\* literal types of the inputs: the first double quote is removed, every
\* character that is no letter or digit becomes "_", then a first
\* character that is no letter becomes "_"
SafeLiteralIdentifier(name) ==
    CASE name = "\"a\"" -> "a_"
      [] name = "\"b\"" -> "b_"
      [] name = "\"c\"" -> "c_"
      [] name = "1" -> "_"
      [] name = "2" -> "_"
      [] name = "true" -> "true"
      [] name = "false" -> "false"

\* mangleTypeForDecoding
RECURSIVE mangleTypeForDecoding(_)
mangleTypeForDecoding(type) ==
    CASE type.type = "predicate" -> Text("predicate")
      [] type.type = "keyword" -> Text(type.name)
      [] type.type = "reference" ->
            LET Mangle(bindingType) ==
                    IF IsError(bindingType) THEN bindingType
                    ELSE mangleTypeForDecoding(bindingType)
                Switch(declaration) ==
                    CASE declaration.declaration = "struct" -> Text("handle")
                      [] declaration.declaration = "alias" ->
                            Mangle(getBindingType(declaration.type))
                      [] declaration.declaration = "enum" ->
                            IF \A i \in 1..Len(declaration.members) :
                                  declaration.members[i].type = "string"
                            THEN Text("string")
                            ELSE Text("unknown enum")
                      [] declaration.declaration = "typeparameter" -> Text(declaration.name)
                      [] OTHER -> Error("missing type mangler") IN
            Switch(Declaration(type))
      [] type.type = "union" ->
            Template("union" \o ToString(Len(type.types)) \o "_",
                     JoinTexts([i \in 1..Len(type.types) |->
                                   mangleTypeForDecoding(type.types[i])], "_"),
                     "")
      [] type.type = "intersection" -> Text("handle")
      [] type.type = "literalunion" ->
            IF type.baseType # "string"
            THEN Error("Error: only literalunion of strings needs to be encoded/decoded")
            ELSE Text("string")
      [] type.type = "mapped" -> Text("handle")
      [] type.type = "optional" ->
            Template("optional_", mangleTypeForDecoding(type.baseType), "")
      [] type.type = "function" ->
            JoinTexts(<< Text("function"), mangleTypeForDecoding(type.returnType),
                         JoinTexts([i \in 1..Len(type.parameters) |->
                                       mangleTypeForDecoding(type.parameters[i].type)], "_") >>,
                      "_")
      [] type.type = "unknown" -> Text("unknown")
      [] type.type = "literal" -> Text(SafeLiteralIdentifier(type.name))
      [] type.type = "array" ->
            Template("array_", mangleTypeForDecoding(type.elementType), "")
      [] type.type = "indexed" -> Text("indexed_")
      [] type.type = "handle" -> Text("handle")
      [] type.type = "instantiated" -> mangleTypeForDecoding(type.baseType)
      [] OTHER -> Error("missing type mangler")

getTypeDecoderName(type) == Template("spasm_decode_", mangleTypeForDecoding(type), "")

\* typeNeedsDecodingFunction without the test of canTypeBeReturned
typeNeedsDecodingFunctionByNameOnly(type) ==
    LET Needs(decoderName) ==
            IF IsError(decoderName) THEN decoderName
            ELSE [value |-> decoderName.text \notin {"spasm_decode_string", "spasm_decode_handle"}] IN
    IF hasTypeGotHandle(type) THEN [value |-> FALSE]
    ELSE Needs(getTypeDecoderName(type))

\* typeNeedsDecodingFunction
typeNeedsDecodingFunction(type) ==
    LET Needs(decoderName) ==
            IF IsError(decoderName) THEN decoderName
            ELSE [value |-> decoderName.text \notin {"spasm_decode_string", "spasm_decode_handle"}]
        Returned(returnable) ==
            IF IsError(returnable) THEN returnable
            ELSE IF returnable.value THEN [value |-> FALSE]
            ELSE Needs(getTypeDecoderName(type)) IN
    IF hasTypeGotHandle(type) THEN [value |-> FALSE]
    ELSE Returned(canTypeBeReturned(type))

\* getTypeDecoderFunction
getTypeDecoderFunction(type) ==
    LET Function(bindingType) ==
            IF IsError(bindingType) THEN bindingType
            ELSE IF bindingType.type = "keyword" /\ bindingType.name = "double"
            THEN Text("getDouble")
            ELSE IF bindingType.type = "keyword" /\ bindingType.name = "bool"
            THEN Text("getBool")
            ELSE getTypeDecoderName(bindingType) IN
    Function(getBindingType(type))

\* the types whose decoder function the decoder of type calls: the reduced
\* members of a union, the base type of an optional or instantiated type,
\* the element type of an array
DecodedTypes(type) ==
    CASE IsError(type) -> << >>
      [] type.type = "union" -> [i \in 1..Len(type.types) |-> getBindingType(type.types[i])]
      [] type.type \in {"optional", "instantiated"} -> << type.baseType >>
      [] type.type = "array" -> << type.elementType >>
      [] OTHER -> << >>

\* the decoder functions taken in the reverse of the declaration order
DecoderFunctionsReversed(types) ==
    IF FirstError(types) # None THEN << FirstError(types) >>
    ELSE [i \in 1..Len(types) |-> getTypeDecoderFunction(types[Len(types) + 1 - i])]

\* their decoder functions, or the first error of types
DecoderFunctions(types) ==
    IF FirstError(types) # None THEN << FirstError(types) >>
    ELSE [i \in 1..Len(types) |-> getTypeDecoderFunction(types[i])]

RECURSIVE generateDecoder(_)

\* generateDecoder, case 'reference' of an alias: the decoder of the
\* aliased type under the decoder name of the reference
generateDecoder_alias(name, aliased) ==
    IF IsError(name) THEN name
    ELSE generateDecoder([name |-> name.text, type |-> aliased])

\* generateDecoder, case 'reference'
generateDecoder_reference(decoder, type, declaration) ==
    CASE declaration.declaration = "struct" ->
            Text(declaration.name \o " = spasm_decode_handle")
      [] declaration.declaration = "alias" ->
            generateDecoder_alias(getTypeDecoderName(type), declaration.type)
      [] declaration.declaration = "enum" ->
            IF decoder.name = "spasm_decode_string" THEN None
            ELSE Error("Enums are either passed via int or via string (spasm_decode_string)")
      [] declaration.declaration = "typeparameter" -> Text(declaration.name)
      [] OTHER -> Error("missing type decoder")

\* generateDecoder, the switch over the reduced type; functions are the
\* decoder functions of DecodedTypes(type)
generateDecoder_switch(decoder, type, functions) ==
    CASE IsError(type) -> type
      [] type.type = "predicate" -> Error("no need to decode predicate type")
      [] type.type = "keyword" ->
            Text(decoder.name \o " = (ptr) => {\n todo keyword " \o type.name \o "\n}")
      [] type.type = "reference" ->
            generateDecoder_reference(decoder, type, Declaration(type))
      [] type.type = "union" ->
            Template(decoder.name \o " = (ptr) => {\n",
                     JoinTexts([i \in 1..Len(functions) |->
                         Template("    if (getUInt(ptr) === " \o ToString(i - 1)
                                  \o ")\n        return ",
                                  functions[i], "(ptr+4);")], "\n"),
                     "\n}")
      [] type.type = "intersection" -> Text(decoder.name \o " = (ptr) => {\n todo\n}")
      [] type.type = "literalunion" ->
            Text(decoder.name \o " = (ptr) => {\n    const vals = ["
                 \o join([i \in 1..Len(type.types) |-> type.types[i].name], ", ")
                 \o "];;\n    return vals[ptr];\n}")
      [] type.type = "mapped" -> Text(decoder.name \o " = (ptr) => {\n todo\n}")
      [] type.type = "optional" ->
            Template(decoder.name \o " = (ptr) => {\n    if (getBool(ptr+4))\n        return ",
                     functions[1], "(ptr);\n}")
      [] type.type = "function" ->
            Text(decoder.name \o " = (ptr) => {\n \\ TODO: implement decoder for function\n}")
      [] type.type = "unknown" -> Text("unknown")
      [] type.type = "literal" -> Error("Cannot decode literal types")
      [] type.type = "array" ->
            IF type.elementType.type = "keyword" /\ type.elementType.name = "double"
            THEN Text(decoder.name \o " = (len, offset) => {\n"
                      \o "    if (!offset) {\n"
                      \o "        offset = getUInt(len+4);\n"
                      \o "        len = getUInt(len);\n"
                      \o "    }\n"
                      \o "    return new Float64Array(spasm.memory.buffer, offet, len);\n"
                      \o "}")
            ELSE Template(decoder.name \o " = (len, offset) => {\n"
                          \o "    if (!offset) {\n"
                          \o "        offset = getUInt(len+1);\n"
                          \o "        len = getUInt(len);\n"
                          \o "    }\n"
                          \o "    let data = [];\n"
                          \o "    for(var i = 0; i < len; i++) {\n"
                          \o "        data.push(",
                          functions[1],
                          "(offset + (i * 4)))\n    }\n}")
      [] type.type = "indexed" -> Text(decoder.name \o " = (ptr) => {\n todo\n}")
      [] type.type = "instantiated" ->
            Template(decoder.name \o " = (ptr) => {\n    return ", functions[1], "(ptr);\n}")
      [] OTHER -> Error("missing type decoder for " \o type.type)

\* generateDecoder, after the reduction of the type of the decoder
generateDecoder_reduced(decoder, type) ==
    generateDecoder_switch(decoder, type, DecoderFunctions(DecodedTypes(type)))

\* generateDecoder: the text of the decoder, None for the undefined a
\* string enum returns, or the Error thrown
generateDecoder(decoder) == generateDecoder_reduced(decoder, getBindingType(decoder.type))

\* The names of the codecs of the inputs in ascending order of the string
\* comparison a.name < b.name (by UTF-16 code unit)
CodecNames ==
    << "spasm_decode_array_double",
       "spasm_decode_array_string",
       "spasm_decode_double",
       "spasm_decode_handle",
       "spasm_decode_optional_double",
       "spasm_decode_optional_handle",
       "spasm_decode_optional_string",
       "spasm_decode_string",
       "spasm_decode_union2_string_double",
       "spasm_decode_union2_string_handle",
       "spasm_decode_unknown enum",
       "spasm_encode_A",
       "spasm_encode_B",
       "spasm_encode_Point",
       "spasm_encode_StructA",
       "spasm_encode_StructA2",
       "spasm_encode_StructAB",
       "spasm_encode_StructB",
       "spasm_encode_StructBC",
       "spasm_encode_StructOptA",
       "spasm_encode_array_double",
       "spasm_encode_array_string",
       "spasm_encode_double",
       "spasm_encode_optional_double",
       "spasm_encode_string",
       "spasm_encode_union2_Point_A",
       "spasm_encode_union2_Point_StructA",
       "spasm_encode_union2_StructAB_StructBC",
       "spasm_encode_union2_StructA_Point",
       "spasm_encode_union2_StructA_StructA2",
       "spasm_encode_union2_StructA_StructB",
       "spasm_encode_union2_StructOptA_StructB",
       "spasm_encode_union2_string_double",
       "spasm_encode_union3_StructA_StructB_Point",
       "spasm_encode_union3_StructA_StructB_double",
       "spasm_encode_union3_StructA_string_StructB",
       "spasm_encode_union3_string_StructA_StructB",
       "spasm_encode_union4_string_Point_A_B" >>

NameRank(name) == CHOOSE i \in 1..Len(CodecNames) : CodecNames[i] = name

NameLess(a, b) == NameRank(a) < NameRank(b)

RECURSIVE SortedNames(_)
SortedNames(names) ==
    IF names = {} THEN << >>
    ELSE LET Least(m) == << m >> \o SortedNames(names \ { m }) IN
         Least(CHOOSE m \in names : \A n \in names : n = m \/ NameLess(m, n))

\* the sequences that keep one of the entries of each name, in the order of names
RECURSIVE KeptEntries(_, _)
KeptEntries(names, entries) ==
    IF Len(names) = 0 THEN { << >> }
    ELSE { << e >> \o rest : e \in { x \in entries : x.name = names[1] },
                             rest \in KeptEntries(Tail(names), entries) }

\* dedupeNamedTypes: the sort puts the names in ascending order, and the
\* reduce keeps the first entry of each name.  The comparator returns 1 for
\* two entries of one name in either order, so which of them the sort puts
\* first is up to the engine's algorithm: the result is a set of outcomes.
dedupeNamedTypes(types) ==
    KeptEntries(SortedNames({ types[i].name : i \in 1..Len(types) }),
                { types[i] : i \in 1..Len(types) })

\* the block `const ${codecs};` of the codec texts that are not undefined
\* (joined by sep), "" without one, or the first error of the texts
CodecBlock(texts, sep) ==
    LET Block(defined) ==
            IF Len(defined) = 0 THEN [value |-> ""]
            ELSE [value |-> "const "
                            \o join([i \in 1..Len(defined) |-> defined[i].text], sep) \o ";"] IN
    IF FirstError(texts) # None THEN FirstError(texts)
    ELSE Block(SelectSeq(texts, LAMBDA d : d # None))

\* getDecoders: the outcomes [value |-> block] or Error of the call
getDecoders(types) ==
    LET Named(selected) ==
            [i \in 1..Len(selected) |->
                [name |-> getTypeDecoderName(selected[i]).text, type |-> selected[i]]]
        Outcomes(needs) ==
            IF FirstError(needs) # None THEN { FirstError(needs) }
            ELSE { CodecBlock([i \in 1..Len(d) |-> generateDecoder(d[i])], ",\n") :
                     d \in dedupeNamedTypes(
                              Named(SelectSeq(types,
                                              LAMBDA t : typeNeedsDecodingFunction(t).value))) } IN
    Outcomes([i \in 1..Len(types) |-> typeNeedsDecodingFunction(types[i])])

\* mangleTypeForEncoding
RECURSIVE mangleTypeForEncoding(_)
mangleTypeForEncoding(type) ==
    CASE type.type = "predicate" -> Text("predicate")
      [] type.type = "keyword" -> Text(type.name)
      [] type.type = "reference" ->
            LET Mangle(bindingType) ==
                    IF IsError(bindingType) THEN bindingType
                    ELSE mangleTypeForEncoding(bindingType)
                Switch(declaration) ==
                    CASE declaration.declaration = "struct" -> Text(type.name)
                      [] declaration.declaration = "alias" ->
                            Mangle(getBindingType(declaration.type))
                      [] declaration.declaration = "enum" ->
                            IF \A i \in 1..Len(declaration.members) :
                                  declaration.members[i].type = "string"
                            THEN Text("string")
                            ELSE Text("unknown enum")
                      [] declaration.declaration = "typeparameter" -> Text(declaration.name)
                      [] OTHER -> Error("missing type mangler") IN
            Switch(Declaration(type))
      [] type.type = "union" ->
            Template("union" \o ToString(Len(type.types)) \o "_",
                     JoinTexts([i \in 1..Len(type.types) |->
                                   mangleTypeForEncoding(type.types[i])], "_"),
                     "")
      [] type.type = "intersection" -> Text("handle")
      [] type.type = "literalunion" ->
            IF type.baseType # "string"
            THEN Error("Error: only literalunion of strings needs to be encoded/decoded")
            ELSE Text("string")
      [] type.type = "mapped" -> Text("handle")
      [] type.type = "optional" ->
            Template("optional_", mangleTypeForEncoding(type.baseType), "")
      [] type.type = "function" -> Text("function_")
      [] type.type = "unknown" -> Text("unknown")
      [] type.type = "literal" -> Text(SafeLiteralIdentifier(type.name))
      [] type.type = "array" ->
            Template("array_", mangleTypeForEncoding(type.elementType), "")
      [] type.type = "indexed" -> Text("indexed_")
      [] type.type = "handle" -> Text("handle")
      [] type.type = "instantiated" ->
            Template(type.name \o "_instantiated" \o ToString(Len(type.templateArguments)) \o "_",
                     JoinTexts([i \in 1..Len(type.templateArguments) |->
                                   mangleTypeForEncoding(type.templateArguments[i])], "_"),
                     "")
      [] OTHER -> Error("missing type mangler")

getTypeEncoderName(type) == Template("spasm_encode_", mangleTypeForEncoding(type), "")

\* typeNeedsEncodingFunction
typeNeedsEncodingFunction(type) ==
    LET Needs(encoderName) ==
            IF IsError(encoderName) THEN encoderName
            ELSE [value |-> encoderName.text \notin {"spasm_encode_string", "spasm_encode_handle"}]
        Returned(returnable) ==
            IF IsError(returnable) THEN returnable
            ELSE IF returnable.value THEN [value |-> FALSE]
            ELSE Needs(getTypeEncoderName(type)) IN
    IF hasTypeGotHandle(type) THEN [value |-> FALSE]
    ELSE Returned(canTypeBeReturned(type))

\* getTypeEncoderFunction
getTypeEncoderFunction(type) ==
    LET Function(bindingType) ==
            IF IsError(bindingType) THEN bindingType
            ELSE IF bindingType.type = "keyword" /\ bindingType.name = "double"
            THEN Text("setDouble")
            ELSE IF bindingType.type = "keyword" /\ bindingType.name = "bool"
            THEN Text("setBool")
            ELSE getTypeEncoderName(bindingType) IN
    Function(getBindingType(type))

\* extractTypePredicatesFromDeclarations: the functions whose return type
\* is a predicate
extractTypePredicatesFromDeclarations(decls) ==
    LET predicates == SelectSeq(decls, LAMBDA d : d.declaration = "function"
                                                  /\ d.returnType.type = "predicate") IN
    [i \in 1..Len(predicates) |->
        [functionName |-> predicates[i].name,
         queryType |-> predicates[i].parameters[1].type,
         resultType |-> predicates[i].returnType]]

\* The guard expressions of getTypePredicates, as terms; ExpressionText is
\* the text the generator writes for a term
StringGuard(identifier) == [op |-> "isString", identifier |-> identifier]
NumberGuard(identifier) == [op |-> "isNumber", identifier |-> identifier]
InstanceOfGuard(identifier, name) ==
    [op |-> "instanceof", identifier |-> identifier, name |-> name]
PropertyEqualsGuard(identifier, propertyName, literal) ==
    [op |-> "===", identifier |-> identifier, propertyName |-> propertyName,
     literal |-> literal]
AnyOfGuard(guards) == [op |-> "(||)", guards |-> guards]
OrUndefinedGuard(guard, identifier, propertyName) ==
    [op |-> "|| == undefined", guard |-> guard, identifier |-> identifier,
     propertyName |-> propertyName]
PredicateCallGuard(functionName, identifier) ==
    [op |-> "call", functionName |-> functionName, identifier |-> identifier]
TrueGuard == [op |-> "true"]
ManualGuard == [op |-> "manual"]

RECURSIVE ExpressionText(_)
ExpressionText(guard) ==
    CASE guard.op = "isString" ->
            "((typeof " \o guard.identifier \o " === 'string') || ("
            \o guard.identifier \o " instanceof String))"
      [] guard.op = "isNumber" -> "(typeof " \o guard.identifier \o " === 'number')"
      [] guard.op = "instanceof" ->
            "(" \o guard.identifier \o " instanceof " \o guard.name \o ")"
      [] guard.op = "===" ->
            guard.identifier \o "." \o guard.propertyName \o " === " \o guard.literal
      [] guard.op = "(||)" ->
            "(" \o join([i \in 1..Len(guard.guards) |-> ExpressionText(guard.guards[i])],
                        " || ") \o ")"
      [] guard.op = "|| == undefined" ->
            ExpressionText(guard.guard) \o " || " \o guard.identifier \o "."
            \o guard.propertyName \o " == undefined"
      [] guard.op = "call" -> guard.functionName \o "(" \o guard.identifier \o ")"
      [] guard.op = "true" -> "true"
      [] guard.op = "manual" -> "<insert manual type predicate>"

\* getLiteralProperties: the properties of literal type of a struct, or of
\* the structs of an intersection
RECURSIVE getLiteralProperties(_)
getLiteralProperties(type) ==
    LET IsLiteral(t) ==
            \/ t.type \in {"literal", "literalunion"}
            \/ t.type = "optional" /\ t.baseType.type \in {"literal", "literalunion"}
        Properties(declaration) ==
            IF declaration.declaration = "struct"
            THEN LET literals ==
                         SelectSeq(declaration.members,
                                   LAMBDA m : m.memberType = "property" /\ IsLiteral(m.type)) IN
                 [i \in 1..Len(literals) |-> [name |-> literals[i].name,
                                              type |-> literals[i].type]]
            ELSE << >> IN
    CASE type.type = "reference" -> Properties(Declaration(type))
      [] type.type = "intersection" ->
            concatAll([i \in 1..Len(type.types) |-> getLiteralProperties(type.types[i])])
      [] OTHER -> << >>

\* getInterfaceLiteralTypeGuard: the guard, None for the undefined the
\* function returns for another type, or the Error thrown
RECURSIVE getInterfaceLiteralTypeGuard(_, _, _)
getInterfaceLiteralTypeGuard(literal, propertyName, identifier) ==
    CASE literal.type = "literal" ->
            PropertyEqualsGuard(identifier, propertyName, literal.name)
      [] literal.type = "literalunion" ->
            AnyOfGuard([i \in 1..Len(literal.types) |->
                           PropertyEqualsGuard(identifier, propertyName, literal.types[i].name)])
      [] literal.type = "optional" ->
            IF literal.baseType.type \in {"literal", "literalunion"}
            THEN OrUndefinedGuard(
                     getInterfaceLiteralTypeGuard(literal.baseType, propertyName, identifier),
                     identifier, propertyName)
            ELSE Error("Unable to get literal typeguard of type " \o literal.baseType.type)
      [] OTHER -> None

\* the file names that contain '/node_modules/typescript/lib/'
LibFiles == { LibFile }

HasLiteralProperty(literalProperties, name) ==
    \E i \in 1..Len(literalProperties) : literalProperties[i].name = name

\* literalProperties.find(p => p.name === name)
FindLiteralProperty(literalProperties, name) ==
    literalProperties[CHOOSE i \in 1..Len(literalProperties) :
                         /\ literalProperties[i].name = name
                         /\ \A j \in 1..(i - 1) : literalProperties[j].name # name]

\* findInterfacesWithCommonLiteralProperty, the body of the loop: the
\* literal properties of litTypes[i] that a later type has too
CommonProps(litTypes, i) ==
    LET current == litTypes[i]
        others == SubSeq(litTypes, i + 1, Len(litTypes))
        commonTypes(name) ==
            SelectSeq(others, LAMBDA other : HasLiteralProperty(other.literalProperties, name))
        withCommon == SelectSeq(current.literalProperties,
                                LAMBDA p : Len(commonTypes(p.name)) > 0)
        Common(literalProperty, common) ==
            [literalPropertyName |-> literalProperty.name,
             types |-> << current.type >> \o [j \in 1..Len(common) |-> common[j].type],
             literals |-> << literalProperty.type >>
                          \o [j \in 1..Len(common) |->
                                 FindLiteralProperty(common[j].literalProperties,
                                                     literalProperty.name).type]] IN
    [k \in 1..Len(withCommon) |-> Common(withCommon[k], commonTypes(withCommon[k].name))]

\* findInterfacesWithCommonLiteralProperty taking the last member that
\* shares a literal property with a later one
findInterfacesWithCommonLiteralPropertyLast(types) ==
    LET litTypes == [k \in 1..Len(types) |->
                        [type |-> types[k],
                         literalProperties |-> getLiteralProperties(types[k].type)]]
        Last(found) == IF found = {} THEN << >>
                       ELSE CommonProps(litTypes,
                                        CHOOSE i \in found : \A j \in found : i >= j) IN
    Last({ i \in 1..(Len(litTypes) - 1) : Len(CommonProps(litTypes, i)) > 0 })

\* findInterfacesWithCommonLiteralProperty
findInterfacesWithCommonLiteralProperty(types) ==
    LET litTypes == [k \in 1..Len(types) |->
                        [type |-> types[k],
                         literalProperties |-> getLiteralProperties(types[k].type)]]
        First(found) == IF found = {} THEN << >>
                        ELSE CommonProps(litTypes,
                                         CHOOSE i \in found : \A j \in found : i <= j) IN
    First({ i \in 1..(Len(litTypes) - 1) : Len(CommonProps(litTypes, i)) > 0 })

\* getTypePredicates, the first map: the guard of a string, a number or a
\* type of the standard library, None for another type
PrimitivePredicate(type, identifier) ==
    CASE type.type = "keyword" /\ type.name = "string" -> StringGuard(identifier)
      [] type.type = "keyword" /\ type.name = "double" -> NumberGuard(identifier)
      [] type.type = "reference" ->
            IF Declaration(type).sourceFile \in LibFiles
            THEN InstanceOfGuard(identifier, type.name)
            ELSE None
      [] OTHER -> None

HasIndex(predicates, index) == \E i \in 1..Len(predicates) : predicates[i].index = index

\* typePredicates.find(predicate => predicate.resultType.fqn === fqn), None
\* when there is none
FindTypePredicate(typePredicates, fqn) ==
    LET found == { i \in 1..Len(typePredicates) : typePredicates[i].resultType.fqn = fqn } IN
    IF found = {} THEN None
    ELSE typePredicates[CHOOSE i \in found : \A j \in found : i <= j]

\* getTypePredicates, the guards of the common literal property found first
AdditionalPredicates(commonLiterals, identifier) ==
    IF Len(commonLiterals) = 0 THEN << >>
    ELSE [idx \in 1..Len(commonLiterals[1].types) |->
             [index |-> commonLiterals[1].types[idx].index,
              type |-> commonLiterals[1].types[idx].type,
              expression |-> getInterfaceLiteralTypeGuard(
                                 commonLiterals[1].literals[idx],
                                 commonLiterals[1].literalPropertyName, identifier)]]

MissingGuardAlwaysTrue(remainingTypes) == TrueGuard

\* getTypePredicates, the guard of the members no step has guarded: `true`
\* for a single one, the placeholder for two or more
MissingGuard(remainingTypes) ==
    IF Len(remainingTypes) < 2 THEN TrueGuard ELSE ManualGuard

\* getTypePredicates, after the guards of the common literal property
getTypePredicates_remaining(predicates, remainingTypes, identifier, typePredicates) ==
    LET fromCode == SelectSeq(remainingTypes,
                        LAMBDA t : FindTypePredicate(typePredicates, t.type.fqn) # None)
        remaining == SelectSeq(remainingTypes,
                        LAMBDA t : FindTypePredicate(typePredicates, t.type.fqn) = None)
        With(guard) == [i \in 1..Len(remaining) |->
                           [index |-> remaining[i].index, type |-> remaining[i].type,
                            expression |-> guard]] IN
    [value |->
        predicates
        \o [i \in 1..Len(fromCode) |->
               [index |-> fromCode[i].index, type |-> fromCode[i].type,
                expression |-> PredicateCallGuard(
                                   FindTypePredicate(typePredicates,
                                                     fromCode[i].type.fqn).functionName,
                                   identifier)]]
        \o With(MissingGuard(remaining))]

ConcatPredicatesReversed(predicates, additionalPredicates) ==
    additionalPredicates \o predicates

\* predicates.concat(additionalPredicates)
ConcatPredicates(predicates, additionalPredicates) == predicates \o additionalPredicates

\* getTypePredicates, after the guards of the primitive types
getTypePredicates_literals(predicates, remainingTypes, identifier, typePredicates) ==
    LET Continue(additionalPredicates) ==
            IF \E i \in 1..Len(additionalPredicates) :
                   IsError(additionalPredicates[i].expression)
            THEN additionalPredicates[
                     CHOOSE i \in 1..Len(additionalPredicates) :
                        /\ IsError(additionalPredicates[i].expression)
                        /\ \A j \in 1..(i - 1) :
                              ~IsError(additionalPredicates[j].expression)].expression
            ELSE getTypePredicates_remaining(
                     ConcatPredicates(predicates, additionalPredicates),
                     SelectSeq(remainingTypes,
                               LAMBDA t : ~HasIndex(additionalPredicates, t.index)),
                     identifier, typePredicates) IN
    Continue(IF Len(remainingTypes) > 0
             THEN AdditionalPredicates(
                      findInterfacesWithCommonLiteralProperty(remainingTypes), identifier)
             ELSE << >>)

\* getTypePredicates: [value |-> the guards [index, type, expression] of
\* the members of a union in the order they are tested], expression being
\* the term of the guard; or the Error thrown
getTypePredicates(type, identifier, typePredicates) ==
    LET indexedTypes == [i \in 1..Len(type.types) |->
                            [index |-> i - 1, type |-> type.types[i]]]
        primitive == SelectSeq(indexedTypes,
                               LAMBDA t : PrimitivePredicate(t.type, identifier) # None)
        Start(predicates) ==
            getTypePredicates_literals(
                predicates,
                SelectSeq(indexedTypes, LAMBDA t : ~HasIndex(predicates, t.index)),
                identifier, typePredicates) IN
    Start([i \in 1..Len(primitive) |->
              [index |-> primitive[i].index, type |-> primitive[i].type,
               expression |-> PrimitivePredicate(primitive[i].type, identifier)]])

\* generateEncoder, the branches of a union: one for each guard
EncoderBranches(predicates) ==
    JoinTexts([i \in 1..Len(predicates) |->
                  Template("if (" \o ExpressionText(predicates[i].expression)
                           \o ") {\n        setUInt(ptr, "
                           \o ToString(predicates[i].index) \o ")\n        ",
                           getTypeEncoderFunction(predicates[i].type),
                           "(ptr+4, val);\n    }")], "else ")

EncoderPartsWithoutPlaceholder(predicates) ==
    IF IsError(predicates) THEN predicates
    ELSE IF \E i \in 1..Len(predicates.value) : predicates.value[i].expression = ManualGuard
    THEN Error("missing type predicate")
    ELSE EncoderBranches(predicates.value)

\* generateEncoder, the parts of a union
EncoderParts(predicates) ==
    IF IsError(predicates) THEN predicates ELSE EncoderBranches(predicates.value)

RECURSIVE generateEncoder(_, _)

\* generateEncoder, the switch over the declaration of a reference
generateEncoder_reference(encoder, type, declaration, typePredicates) ==
    CASE declaration.declaration = "struct" ->
            Text(declaration.name \o " = spasm_encode_handle")
      [] declaration.declaration = "alias" ->
            LET Alias(name) ==
                    IF IsError(name) THEN name
                    ELSE generateEncoder([name |-> name.text, type |-> declaration.type],
                                         typePredicates) IN
            Alias(getTypeEncoderName(type))
      [] declaration.declaration = "enum" ->
            IF encoder.name = "spasm_encode_string" THEN None
            ELSE Error("Enums are either passed via int or via string (spasm_encode_string)")
      [] declaration.declaration = "typeparameter" -> Text(declaration.name)
      [] OTHER -> Error("missing type encoder")

\* generateEncoder, the switch over the reduced type
generateEncoder_switch(encoder, type, typePredicates) ==
    CASE IsError(type) -> type
      [] type.type = "predicate" -> Error("no need to decode predicate type")
      [] type.type = "keyword" ->
            Text(encoder.name \o " = (ptr, val) => {\n todo keyword " \o type.name \o "\n}")
      [] type.type = "reference" ->
            generateEncoder_reference(encoder, type, Declaration(type), typePredicates)
      [] type.type = "union" ->
            Template(encoder.name \o " = (ptr, val) => {\n    ",
                     EncoderParts(getTypePredicates(type, "val", typePredicates)),
                     "\n}")
      [] type.type = "intersection" ->
            Text(encoder.name \o " = (ptr, val) => {\n todo intersection\n}")
      [] type.type = "literalunion" ->
            Text(encoder.name \o " = (ptr, val) => {\n    const vals = ["
                 \o join([i \in 1..Len(type.types) |-> type.types[i].name], ", ")
                 \o "];;\n    return vals[ptr];\n}")
      [] type.type = "mapped" -> Text(encoder.name \o " = (ptr, val) => {\n todo mapped\n}")
      [] type.type = "optional" ->
            Template(encoder.name \o " = (ptr, val) => {\n"
                     \o "    if (setBool(ptr+4, isDefined(val)))\n        ",
                     getTypeEncoderFunction(type.baseType), "(ptr, val);\n}")
      [] type.type = "function" ->
            Text(encoder.name \o " = (ptr, val) => {\n // TODO: implement encoder for function\n}")
      [] type.type = "unknown" -> Text("unknown")
      [] type.type = "literal" -> Error("Cannot decode literal types")
      [] type.type = "array" ->
            IF type.elementType.type = "keyword" /\ type.elementType.name = "double"
            THEN Text(encoder.name \o " = (ptr, val) => {\n"
                      \o "    const len = val.length;\n"
                      \o "    const offset = spasm.alloc(len * 8);"
                      \o "    setUInt(ptr, len);\n"
                      \o "    setUInt(ptr+4, offset);\n"
                      \o "    // todo, actually set the floats\n"
                      \o "}")
            ELSE Template(encoder.name \o " = (ptr, val) => {\n"
                          \o "    const len = val.length;\n"
                          \o "    const offset = spasm.alloc(len * 4);"
                          \o "    setUInt(ptr, len);\n"
                          \o "    setUInt(ptr+4, offset);\n"
                          \o "    for(var i = 0; i < len; i++) {\n"
                          \o "        ",
                          getTypeEncoderFunction(type.elementType),
                          "(offset + (i * 4), val[i]));\n    }\n}")
      [] type.type = "indexed" -> Text(encoder.name \o " = (ptr, val) => {\n todo indexed\n}")
      [] type.type = "instantiated" ->
            generateEncoder([name |-> encoder.name, type |-> type.baseType], typePredicates)
      [] OTHER -> Error("missing type encoder for " \o type.type)

\* generateEncoder: the text of the encoder, None for the undefined a
\* string enum returns, or the Error thrown
generateEncoder(encoder, typePredicates) ==
    generateEncoder_switch(encoder, getBindingType(encoder.type), typePredicates)

\* the block `const ${encoders};` of getEncoders: the array of the texts
\* is written as its elements joined by ",", "" for an undefined one
EncoderBlock(texts) ==
    IF FirstError(texts) # None THEN FirstError(texts)
    ELSE IF Len(texts) = 0 THEN [value |-> ""]
    ELSE [value |-> "const "
                    \o join([i \in 1..Len(texts) |->
                                IF texts[i] = None THEN "" ELSE texts[i].text], ",")
                    \o ";"]

\* getEncoders: the outcomes [value |-> block] or Error of the call
getEncoders(types, typePredicates) ==
    LET Named(selected) ==
            [i \in 1..Len(selected) |->
                [name |-> getTypeEncoderName(selected[i]).text, type |-> selected[i]]]
        Kept(d) == SelectSeq(d, LAMBDA e : /\ ~hasTypeGotHandle(e.type)
                                           /\ ~canTypeBeReturned(e.type).value)
        Encoders(d) == [i \in 1..Len(d) |-> generateEncoder(d[i], typePredicates)]
        Outcomes(needs) ==
            IF FirstError(needs) # None THEN { FirstError(needs) }
            ELSE { EncoderBlock(Encoders(Kept(d))) :
                     d \in dedupeNamedTypes(
                              Named(SelectSeq(types,
                                              LAMBDA t : typeNeedsEncodingFunction(t).value))) } IN
    Outcomes([i \in 1..Len(types) |-> typeNeedsEncodingFunction(types[i])])

\* parameterToString
parameterToString(param) ==
    LET Names(bindingType) ==
            CASE IsError(bindingType) -> bindingType
              [] bindingType.type = "array" ->
                    Text(param.name \o "Len, " \o param.name \o "Off")
              [] bindingType.type = "optional" ->
                    Text(param.name \o "Defined, " \o param.name)
              [] OTHER -> Text(param.name) IN
    Names(getBindingType(param.type))

\* decodeParameter
decodeParameter(param) ==
    LET Optional(needs) ==
            IF IsError(needs) THEN needs
            ELSE IF needs.value
            THEN Template("(" \o param.name \o "Defined ? ",
                          getTypeDecoderFunction(param.type.baseType),
                          "(" \o param.name \o ") : undefined)")
            ELSE Text("(" \o param.name \o "Defined ? " \o param.name \o " : undefined)")
        Decode(decoder) ==
            CASE IsError(decoder) -> decoder
              [] param.type.type = "array" ->
                    Text(decoder.text \o "(" \o param.name \o "Len, " \o param.name \o "Off)")
              [] param.type.type = "optional" -> Optional(typeNeedsDecodingFunction(param.type))
              [] OTHER -> Text(decoder.text \o "(" \o param.name \o ")") IN
    Decode(getTypeDecoderName(param.type))

\* generateSourceDecoding
generateSourceDecoding(param) ==
    LET Returned(returnable) ==
            IF IsError(returnable) THEN returnable
            ELSE IF returnable.value THEN Text(param.name)
            ELSE decodeParameter(param) IN
    IF hasTypeGotHandle(param.type) THEN Text("objects[" \o param.name \o "]")
    ELSE Returned(canTypeBeReturned(param.type))

\* generateFunctionParameterNames(...).join(", ")
generateFunctionParameterNames(returnType, params) ==
    LET Names(returnable) ==
            IF IsError(returnable) THEN returnable
            ELSE JoinTexts((IF returnable.value THEN << >> ELSE << Text("rawResult") >>)
                           \o [i \in 1..Len(params) |-> parameterToString(params[i])], ", ") IN
    Names(canTypeBeReturned(returnType))

\* generateResultEncoding
generateResultEncoding(returnType, expression) ==
    LET Returned(returnable) ==
            IF IsError(returnable) THEN returnable
            ELSE IF returnable.value THEN Text("return " \o expression)
            ELSE Template("", getTypeEncoderName(returnType),
                          "(rawResult, " \o expression \o ")") IN
    IF isVoid(returnType) THEN Text(expression)
    ELSE IF hasTypeGotHandle(returnType) THEN Text("return addObject(" \o expression \o ")")
    ELSE Returned(canTypeBeReturned(returnType))

\* an entry point `    name: (parameters) => {\n        expression;\n    }`
EntryPoint(mangledName, parameters, expression) ==
    IF IsError(parameters) THEN parameters
    ELSE IF IsError(expression) THEN expression
    ELSE Text("    " \o mangledName \o ": (" \o parameters.text \o ") => {\n"
              \o "        " \o expression.text \o ";\n"
              \o "    }")

\* the call `${name}(${parameters.map(generateSourceDecoding)})` given to
\* generateResultEncoding
EncodedCall(returnType, name, parameters) ==
    LET Encoded(arguments) ==
            IF IsError(arguments) THEN arguments
            ELSE generateResultEncoding(returnType, name \o "(" \o arguments.text \o ")") IN
    Encoded(JoinTexts([i \in 1..Len(parameters) |-> generateSourceDecoding(parameters[i])],
                      ","))

\* structMemberToString: the text, None for the undefined of a literal property
structMemberToString(member, struct) ==
    LET selfParameter == [name |-> "ctx", type |-> HandleType]
        propertyParameter == [name |-> member.name, type |-> member.type]
        argument == [symbol |-> member.name, type |-> member.type]
        Both(getter, setter) ==
            IF IsError(getter) THEN getter
            ELSE IF IsError(setter) THEN setter
            ELSE Text(getter.text \o ",\n" \o setter.text)
        Prefixed(text, prefix) ==
            IF IsError(text) THEN text ELSE Text(prefix \o text.text) IN
    IF member.memberType = "property"
    THEN IF isLiteralOrUndefinedType(member.type) THEN None
         ELSE Both(EntryPoint(mangleMethod(struct, member, << >>, FunctionKind_getter),
                              generateFunctionParameterNames(member.type, << selfParameter >>),
                              generateResultEncoding(member.type,
                                                     "objects[ctx]." \o member.name)),
                   EntryPoint(mangleMethod(struct, member, << argument >>, FunctionKind_setter),
                              Prefixed(parameterToString(propertyParameter), "ctx, "),
                              Prefixed(generateSourceDecoding(propertyParameter),
                                       "objects[ctx]." \o member.name \o " = ")))
    ELSE EntryPoint(mangleMethod(struct, member,
                                 << [symbol |-> "ctx", type |-> HandleType] >>
                                 \o [i \in 1..Len(member.parameters) |->
                                        [symbol |-> member.parameters[i].name,
                                         type |-> member.parameters[i].type]],
                                 FunctionKind_nomangle),
                    Prefixed(generateFunctionParameterNames(member.returnType,
                                                            member.parameters), "ctx, "),
                    EncodedCall(member.returnType, "objects[ctx]." \o member.name,
                                member.parameters))

\* structToString: the text, None for the null of a struct with template
\* arguments
structToString(struct) ==
    LET Members(texts) ==
            IF FirstError(texts) # None THEN FirstError(texts)
            ELSE Text(join([i \in 1..Len(SelectSeq(texts, LAMBDA t : t # None)) |->
                               SelectSeq(texts, LAMBDA t : t # None)[i].text], ",\n")) IN
    IF Len(struct.templateArguments) > 0 THEN None
    ELSE Members([i \in 1..Len(struct.members) |->
                     structMemberToString(struct.members[i], struct)])

\* functionToString
functionToString(func) ==
    EntryPoint(mangleFunctionName(func.name,
                                  [i \in 1..Len(func.parameters) |->
                                      [symbol |-> func.parameters[i].name,
                                       type |-> func.parameters[i].type]],
                                  FunctionKind_root),
               generateFunctionParameterNames(func.returnType, func.parameters),
               EncodedCall(func.returnType, func.name, func.parameters))

\* generateJsCode: the prefix of the generated file
JsPrefix ==
    "// File is autogenerated with `typescript-d-bindgen`\n"
    \o "import {spasm as spa, encoders as encoder, decoders as decoder} from '../modules/spasm.js';\n"
    \o "const spasm = spa;\n"
    \o "let memory = {};\n"
    \o "const objects = spasm.objects;\n"
    \o "const addObject = spasm.addObject;\n"
    \o "const setupMemory = () => {\n"
    \o "    let buffer = spasm.memory.buffer;\n"
    \o "    if (memory.buffer == buffer)\n"
    \o "        return;\n"
    \o "    memory.buffer = buffer;\n"
    \o "    memory.heapi32s = new Int32Array(buffer)\n"
    \o "    memory.heapi32u = new Uint32Array(buffer)\n"
    \o "    memory.heapi16s = new Int16Array(buffer)\n"
    \o "    memory.heapi16u = new Uint16Array(buffer)\n"
    \o "    memory.heapi8s = new Int8Array(buffer)\n"
    \o "    memory.heapi8u = new Uint8Array(buffer)\n"
    \o "    memory.heapf32 = new Float32Array(buffer)\n"
    \o "    memory.heapf64 = new Float64Array(buffer)\n"
    \o "}\n"
    \o "const setBool = (ptr, val) => (memory.heapi32u[ptr/4] = +val),\n"
    \o "      setInt = (ptr, val) => (memory.heapi32s[ptr/4] = val),\n"
    \o "      setUInt = (ptr, val) => (memory.heapi32u[ptr/4] = val),\n"
    \o "      setShort = (ptr, val) => (memory.heapi16s[ptr/2] = val),\n"
    \o "      setUShort = (ptr, val) => (memory.heapi16u[ptr/2] = val),\n"
    \o "      setByte = (ptr, val) => (memory.heapi8s[ptr] = val),\n"
    \o "      setUByte = (ptr, val) => (memory.heapi8u[ptr] = val),\n"
    \o "      setFloat = (ptr, val) => (memory.heapf32[ptr/4] = val),\n"
    \o "      setDouble = (ptr, val) => (memory.heapf64[ptr/8] = val),\n"
    \o "      getBool = (ptr) => memory.heapi32u[ptr/4],\n"
    \o "      getInt = (ptr) => memory.heapi32s[ptr/4],\n"
    \o "      getUInt = (ptr) => memory.heapi32u[ptr/4],\n"
    \o "      getShort = (ptr) => memory.heapi16s[ptr/2],\n"
    \o "      getUShort = (ptr) => memory.heapi16u[ptr/2],\n"
    \o "      getByte = (ptr) => memory.heapi8s[ptr],\n"
    \o "      getUByte = (ptr) => memory.heapi8u[ptr],\n"
    \o "      getFloat = (ptr) => memory.heapf32[ptr/4],\n"
    \o "      getDouble = (ptr) => memory.heapf64[ptr/8],\n"
    \o "      isDefined = (val) => (val != undefined && val != null),\n"
    \o "      encode_handle = (ptr, val) => { setUInt(ptr, spasm.addObject(val)); },\n"
    \o "      decode_handle = (ptr) => { return spasm.objects[getUInt(ptr)]; },\n"
    \o "      spasm_encode_string = encoder.string,\n"
    \o "      spasm_decode_string = decoder.string,\n"
    \o "      spasm_indirect_function_get = (ptr)=>spasm.instance.exports.__indirect_function_table.get(ptr),\n"
    \o "  spasm_decode_handle = decode_handle,\n"
    \o "  spasm_decode_sequence = decode_handle;\n"

\* generateJsCode: the exports, the texts of the functions and structs
\* that are not empty joined by ",\n"
JsExports(decls) ==
    LET selected == SelectSeq(decls, LAMBDA d : d.declaration \in {"function", "struct"})
        Joined(texts) ==
            IF FirstError(texts) # None THEN FirstError(texts)
            ELSE Text(join([i \in 1..Len(SelectSeq(texts, LAMBDA t : t # None /\ t.text # "")) |->
                               SelectSeq(texts, LAMBDA t : t # None /\ t.text # "")[i].text],
                           ",\n")) IN
    Joined([i \in 1..Len(selected) |->
               IF selected[i].declaration = "function" THEN functionToString(selected[i])
               ELSE structToString(selected[i])])

\* generateJsCode, the parts that are not empty joined by "\n"
JsCode(encoders, decoders, packageName, exports) ==
    IF IsError(encoders) THEN encoders
    ELSE IF IsError(decoders) THEN decoders
    ELSE IF IsError(exports) THEN exports
    ELSE [value |->
             join(SelectSeq(<< JsPrefix, encoders.value, decoders.value,
                               "export let jsExports = { '" \o packageName \o "': {",
                               exports.text, "} };" >>,
                            LAMBDA part : part # ""), "\n")]

\* generateJsCode: the outcomes [value |-> text] or Error of the call
generateJsCode(decls, packageName) ==
    LET Code(types) ==
            IF IsError(types) THEN { types }
            ELSE { JsCode(encoders, decoders, packageName, JsExports(decls)) :
                     encoders \in getEncoders(types.encoders,
                                              extractTypePredicatesFromDeclarations(decls)),
                     decoders \in getDecoders(types.decoders) } IN
    Code(extractTypesFromDeclarations(decls))

\* The array codecs generateEncoder and generateDecoder write, run on a
\* memory of words: what the statements of the written text do.  The
\* element types are double (the Float64Array codec) and string (the
\* generic codec); elements are given by their numbers.
ArrayElementTypes == { "double", "string" }
ArrayElements == { 1, 2 }

\* the address the codec is given, and the address spasm.alloc returns
EncodePtr == 0
AllocOffset == 16
SizeOfDouble == 8
SizeOfElement == 4

EmptyMemory == [a \in {} |-> 0]

\* setUInt(ptr, val) and the like: the word at an address
Store(memory, ptr, val) == [a \in DOMAIN memory \cup { ptr } |->
                               IF a = ptr THEN val ELSE memory[a]]
\* getUInt(ptr): None for the undefined of a word never written
Load(memory, ptr) == IF ptr \in DOMAIN memory THEN memory[ptr] ELSE None

\* the size of an element: `len * 8` for a double, sizeOfElement for another
ElementSize(elementType) == IF elementType = "double" THEN SizeOfDouble ELSE SizeOfElement

\* the memory of an array as the codecs lay it out: the length at ptr, the
\* offset of the buffer at ptr+4, the elements in the buffer
RECURSIVE StoreElements(_, _, _, _)
StoreElements(memory, offset, size, val) ==
    IF Len(val) = 0 THEN memory
    ELSE StoreElements(Store(memory, offset, val[1]), offset + size, size, Tail(val))

ArrayLayout(elementType, ptr, val) ==
    StoreElements(Store(Store(EmptyMemory, ptr, Len(val)), ptr + 4, AllocOffset),
                  AllocOffset, ElementSize(elementType), val)

\* the encoder of an array: [memory |-> ...] after the call, or the Error
\* of the text.  The text for an array of double sets the length and the
\* offset and leaves the elements unwritten (`// todo, actually set the
\* floats`); the text for another array ends its loop statement with
\* `val[i]));`, one parenthesis too many, so the generated module does not
\* parse.
RunArrayEncoder(elementType, memory, ptr, val) ==
    IF elementType = "double"
    THEN [memory |-> Store(Store(memory, ptr, Len(val)), ptr + 4, AllocOffset)]
    ELSE Error("SyntaxError: Unexpected token ')'")

\* the decoder of an array called as decoder(ptr): the value it returns, or
\* the Error it throws.  The text for an array of double reads the offset
\* at len+4 and the length at len and then names `offet`, a variable that
\* does not exist; the text for another array reads the offset at len+1,
\* fills `data` and returns nothing.
RunArrayDecoder(elementType, memory, ptr) ==
    IF elementType = "double"
    THEN Error("ReferenceError: offet is not defined")
    ELSE [value |-> None]

\* the size the generators of the optional codecs assume for every base
\* type: `const sizeOfBase = 4`
SizeOfBase == 4

\* a double as the two words it occupies in the little-endian memory of
\* the module: 0.0, 1.0 and the smallest denormal
DoubleZero == [lo |-> 0, hi |-> 0]
DoubleOne == [lo |-> 0, hi |-> 1072693248]
DoubleDenormal == [lo |-> 1, hi |-> 0]
HostDoubles == { DoubleZero, DoubleOne, DoubleDenormal }

\* setBool(ptr, val): heapi32u[ptr/4] = +val
setBool(memory, ptr, val) == Store(memory, ptr, IF val THEN 1 ELSE 0)
\* setDouble(ptr, val): heapf64[ptr/8] = val, the eight bytes from ptr
setDouble(memory, ptr, val) == Store(Store(memory, ptr, val.lo), ptr + 4, val.hi)
\* getBool(ptr): heapi32u[ptr/4]
getBool(memory, ptr) == Load(memory, ptr)
\* getDouble(ptr): heapf64[ptr/8], a word never written reads as zero
getDouble(memory, ptr) ==
    LET Word(a) == IF a \in DOMAIN memory THEN Load(memory, a) ELSE 0 IN
    [lo |-> Word(ptr), hi |-> Word(ptr + 4)]

\* the truth of getBool(ptr) in the condition of an `if`: a word that was
\* written and is not zero
Truthy(memory, ptr) == ptr \in DOMAIN memory /\ getBool(memory, ptr) # 0

\* the values of the host: a boolean, and a number read from a word
HostBoolean(b) == [bool |-> b]
HostNumber(n) == [number |-> n]

\* the number of bytes the base codec writes from ptr
BaseStorage(type) ==
    IF getTypeEncoderFunction(type).text = "setDouble" THEN SizeOfDouble ELSE SizeOfElement

\* the encoder generateEncoder writes for an optional, run on val (None for
\* an undefined or null val): the flag at ptr+sizeOfBase, then the encoder
\* of the base type at ptr when the flag is set
RunOptionalEncoder(type, memory, ptr, val) ==
    LET flagged == setBool(memory, ptr + SizeOfBase, val # None) IN
    IF ~Truthy(flagged, ptr + SizeOfBase) THEN flagged
    ELSE IF getTypeEncoderFunction(type.baseType).text = "setDouble"
    THEN setDouble(flagged, ptr, val)
    ELSE setBool(flagged, ptr, val.bool)

\* the decoder generateDecoder writes for an optional: the decoder of the
\* base type at ptr when the flag at ptr+sizeOfBase is set, undefined (None)
\* otherwise
RunOptionalDecoder(type, memory, ptr) ==
    IF ~Truthy(memory, ptr + SizeOfBase) THEN None
    ELSE IF getTypeDecoderFunction(type.baseType).text = "getDouble"
    THEN getDouble(memory, ptr)
    ELSE HostNumber(getBool(memory, ptr))

\* generateFunctionParameterNames as the string[] it returns: [value |->
\* the names], or the Error of canTypeBeReturned or parameterToString
FunctionParameterNames(returnType, params) ==
    LET names == [i \in 1..Len(params) |-> parameterToString(params[i])]
        Names(returnable) ==
            IF IsError(returnable) THEN returnable
            ELSE IF FirstError(names) # None THEN FirstError(names)
            ELSE [value |-> (IF returnable.value THEN << >> ELSE << "rawResult" >>)
                            \o [i \in 1..Len(names) |-> names[i].text]] IN
    Names(canTypeBeReturned(returnType))

\* the parameter list between the parentheses of an entry point whose text
\* is `(ctx, ${parameters})`
AfterContext(names) ==
    IF IsError(names) THEN names ELSE [value |-> << "ctx" >> \o names.value]

\* the parameter list of a setter: `(ctx, ${parameterToString(propertyParameter)})`
SetterParameters(name) ==
    IF IsError(name) THEN name ELSE [value |-> << "ctx", name.text >>]

\* the entry points structMemberToString writes for a member: the getter
\* and the setter of a property that is not a literal, the method
MemberEntryPoints(member) ==
    IF member.memberType = "property"
    THEN IF isLiteralOrUndefinedType(member.type) THEN << >>
         ELSE << [kind |-> "getter", returnType |-> member.type,
                  parameters |-> FunctionParameterNames(
                                     member.type, << [name |-> "ctx", type |-> HandleType] >>)],
                 [kind |-> "setter", returnType |-> None,
                  parameters |-> SetterParameters(parameterToString(
                                     [name |-> member.name, type |-> member.type]))] >>
    ELSE << [kind |-> "method", returnType |-> member.returnType,
             parameters |-> AfterContext(FunctionParameterNames(member.returnType,
                                                                member.parameters))] >>

\* the entry points functionToString and structToString write for a
\* declaration
EntryPoints(declaration) ==
    CASE declaration.declaration = "function" ->
            << [kind |-> "function", returnType |-> declaration.returnType,
                parameters |-> FunctionParameterNames(declaration.returnType,
                                                      declaration.parameters)] >>
      [] declaration.declaration = "struct" ->
            IF Len(declaration.templateArguments) > 0 THEN << >>
            ELSE concatAll([i \in 1..Len(declaration.members) |->
                               MemberEntryPoints(declaration.members[i])])
      [] OTHER -> << >>

----------------------------------------------------------------------------
(* The recursion over references, one call at a time: a frame is a call  *)
(* fn(type) that is still to run                                          *)

Frame(fn, type) == [fn |-> fn, type |-> type]

\* the calls a call makes, in the order it makes them
FrameCalls(frames) == [calls |-> frames]

\* the calls hasTypeGotHandle(type) makes of itself
hasTypeGotHandle_calls(type) ==
    IF type.type = "reference" /\ Declaration(type).declaration = "alias"
    THEN FrameCalls(<< Frame("hasTypeGotHandle", Declaration(type).type) >>)
    ELSE FrameCalls(<< >>)

\* the calls canTypeBeReturned(type) makes: hasTypeGotHandle(type) unless
\* the type is void, then itself on the type of an alias; or the Error it
\* throws
canTypeBeReturned_calls(type) ==
    IF isVoid(type) THEN FrameCalls(<< >>)
    ELSE IF type.type = "reference" /\ Declaration(type).declaration = "alias"
    THEN FrameCalls(<< Frame("hasTypeGotHandle", type) >>
               \o (IF hasTypeGotHandle(type) THEN << >>
                   ELSE << Frame("canTypeBeReturned", Declaration(type).type) >>))
    ELSE IF IsError(canTypeBeReturned(type)) THEN canTypeBeReturned(type)
    ELSE FrameCalls(<< Frame("hasTypeGotHandle", type) >>)

\* the calls of itself in the case 'reference' of a mangler: the reduced
\* type of an alias, or the Error of the reduction
mangle_alias_calls(fn, type) ==
    IF Declaration(type).declaration # "alias" THEN FrameCalls(<< >>)
    ELSE IF IsError(getBindingType(Declaration(type).type))
    THEN getBindingType(Declaration(type).type)
    ELSE FrameCalls(<< Frame(fn, getBindingType(Declaration(type).type)) >>)

\* the calls mangleTypeForDecoding(type) makes of itself, or the Error it
\* throws
mangleTypeForDecoding_calls(type) ==
    CASE type.type = "reference" -> mangle_alias_calls("mangleTypeForDecoding", type)
      [] type.type = "union" ->
            FrameCalls([i \in 1..Len(type.types) |->
                      Frame("mangleTypeForDecoding", type.types[i])])
      [] type.type = "literalunion" ->
            IF type.baseType # "string"
            THEN Error("Error: only literalunion of strings needs to be encoded/decoded")
            ELSE FrameCalls(<< >>)
      [] type.type = "optional" -> FrameCalls(<< Frame("mangleTypeForDecoding", type.baseType) >>)
      [] type.type = "function" ->
            FrameCalls(<< Frame("mangleTypeForDecoding", type.returnType) >>
                  \o [i \in 1..Len(type.parameters) |->
                         Frame("mangleTypeForDecoding", type.parameters[i].type)])
      [] type.type = "array" -> FrameCalls(<< Frame("mangleTypeForDecoding", type.elementType) >>)
      [] type.type = "instantiated" ->
            FrameCalls(<< Frame("mangleTypeForDecoding", type.baseType) >>)
      [] type.type \in {"predicate", "keyword", "intersection", "mapped", "unknown",
                        "literal", "indexed", "handle"} -> FrameCalls(<< >>)
      [] OTHER -> Error("missing type mangler")

\* the calls mangleTypeForEncoding(type) makes of itself, or the Error it
\* throws
mangleTypeForEncoding_calls(type) ==
    CASE type.type = "reference" -> mangle_alias_calls("mangleTypeForEncoding", type)
      [] type.type = "union" ->
            FrameCalls([i \in 1..Len(type.types) |->
                      Frame("mangleTypeForEncoding", type.types[i])])
      [] type.type = "literalunion" ->
            IF type.baseType # "string"
            THEN Error("Error: only literalunion of strings needs to be encoded/decoded")
            ELSE FrameCalls(<< >>)
      [] type.type = "optional" -> FrameCalls(<< Frame("mangleTypeForEncoding", type.baseType) >>)
      [] type.type = "array" -> FrameCalls(<< Frame("mangleTypeForEncoding", type.elementType) >>)
      [] type.type = "instantiated" ->
            FrameCalls([i \in 1..Len(type.templateArguments) |->
                      Frame("mangleTypeForEncoding", type.templateArguments[i])])
      [] type.type \in {"predicate", "keyword", "intersection", "mapped", "function",
                        "unknown", "literal", "indexed", "handle"} -> FrameCalls(<< >>)
      [] OTHER -> Error("missing type mangler")

\* the calls a frame makes
RecursiveCalls(frame) ==
    CASE frame.fn = "hasTypeGotHandle" -> hasTypeGotHandle_calls(frame.type)
      [] frame.fn = "canTypeBeReturned" -> canTypeBeReturned_calls(frame.type)
      [] frame.fn = "mangleTypeForDecoding" -> mangleTypeForDecoding_calls(frame.type)
      [] frame.fn = "mangleTypeForEncoding" -> mangleTypeForEncoding_calls(frame.type)

----------------------------------------------------------------------------
(* The function names of the marshalling text: those it defines and those *)
(* its codecs and entry points call                                       *)

\* the names the fixed prelude defines
PreludeNames ==
    { "setBool", "setInt", "setUInt", "setShort", "setUShort", "setByte", "setUByte",
      "setFloat", "setDouble", "getBool", "getInt", "getUInt", "getShort", "getUShort",
      "getByte", "getUByte", "getFloat", "getDouble", "isDefined", "encode_handle",
      "decode_handle", "spasm_encode_string", "spasm_decode_string",
      "spasm_indirect_function_get", "spasm_decode_handle", "spasm_decode_sequence" }

TextsOf(texts) == { texts[i].text : i \in 1..Len(texts) }

\* the codec functions the encoder generateEncoder writes for a type calls
RECURSIVE EncoderReferences(_, _)
EncoderReferences(type, typePredicates) ==
    LET Reduced(bindingType) ==
            CASE bindingType.type = "reference" ->
                    IF Declaration(bindingType).declaration = "alias"
                    THEN EncoderReferences(Declaration(bindingType).type, typePredicates)
                    ELSE IF Declaration(bindingType).declaration = "struct"
                    THEN { "spasm_encode_handle" }
                    ELSE { }
              [] bindingType.type = "union" ->
                    { getTypeEncoderFunction(p.type).text :
                        p \in { getTypePredicates(bindingType, "val", typePredicates).value[i] :
                                  i \in 1..Len(bindingType.types) } }
              [] bindingType.type = "optional" ->
                    { getTypeEncoderFunction(bindingType.baseType).text }
              [] bindingType.type = "array" ->
                    IF bindingType.elementType.type = "keyword"
                       /\ bindingType.elementType.name = "double"
                    THEN { }
                    ELSE { getTypeEncoderFunction(bindingType.elementType).text }
              [] bindingType.type = "instantiated" ->
                    EncoderReferences(bindingType.baseType, typePredicates)
              [] OTHER -> { } IN
    Reduced(getBindingType(type))

\* the codec functions the decoder generateDecoder writes for a type calls
RECURSIVE DecoderReferences(_)
DecoderReferences(type) ==
    LET Reduced(bindingType) ==
            CASE bindingType.type = "reference" ->
                    IF Declaration(bindingType).declaration = "alias"
                    THEN DecoderReferences(Declaration(bindingType).type)
                    ELSE IF Declaration(bindingType).declaration = "struct"
                    THEN { "spasm_decode_handle" }
                    ELSE { }
              [] bindingType.type = "array" ->
                    IF bindingType.elementType.type = "keyword"
                       /\ bindingType.elementType.name = "double"
                    THEN { }
                    ELSE TextsOf(DecoderFunctions(DecodedTypes(bindingType)))
              [] OTHER -> TextsOf(DecoderFunctions(DecodedTypes(bindingType))) IN
    Reduced(getBindingType(type))

\* the encoder generateResultEncoding calls for a return type
ResultReferences(returnType) ==
    IF isVoid(returnType) \/ hasTypeGotHandle(returnType)
       \/ canTypeBeReturned(returnType).value
    THEN { }
    ELSE { getTypeEncoderName(returnType).text }

\* the decoder generateSourceDecoding calls for a parameter
ParameterReferences(param) ==
    IF hasTypeGotHandle(param.type) \/ canTypeBeReturned(param.type).value THEN { }
    ELSE IF param.type.type = "optional"
    THEN IF typeNeedsDecodingFunction(param.type).value
         THEN { getTypeDecoderFunction(param.type.baseType).text }
         ELSE { }
    ELSE { getTypeDecoderName(param.type).text }

\* the codecs the entry points of a declaration call
EntryPointReferences(declaration) ==
    LET Member(member) ==
            IF member.memberType = "property"
            THEN IF isLiteralOrUndefinedType(member.type) THEN { }
                 ELSE ResultReferences(member.type)
                      \cup ParameterReferences([name |-> member.name, type |-> member.type])
            ELSE ResultReferences(member.returnType)
                 \cup UNION { ParameterReferences(member.parameters[i]) :
                                i \in 1..Len(member.parameters) } IN
    CASE declaration.declaration = "function" ->
            ResultReferences(declaration.returnType)
            \cup UNION { ParameterReferences(declaration.parameters[i]) :
                           i \in 1..Len(declaration.parameters) }
      [] declaration.declaration = "struct" ->
            IF Len(declaration.templateArguments) > 0 THEN { }
            ELSE UNION { Member(declaration.members[i]) :
                           i \in 1..Len(declaration.members) }
      [] OTHER -> { }

\* the named types getEncoders and getDecoders write a codec for, one
\* choice for each outcome of the sort
NamedEncoders(types) ==
    { SelectSeq(d, LAMBDA e : ~hasTypeGotHandle(e.type) /\ ~canTypeBeReturned(e.type).value) :
        d \in dedupeNamedTypes(
                 [i \in 1..Len(SelectSeq(types, LAMBDA t : typeNeedsEncodingFunction(t).value)) |->
                     [name |-> getTypeEncoderName(
                                   SelectSeq(types, LAMBDA t :
                                       typeNeedsEncodingFunction(t).value)[i]).text,
                      type |-> SelectSeq(types, LAMBDA t :
                                   typeNeedsEncodingFunction(t).value)[i]]]) }

NamedDecoders(types) ==
    dedupeNamedTypes(
        [i \in 1..Len(SelectSeq(types, LAMBDA t : typeNeedsDecodingFunction(t).value)) |->
            [name |-> getTypeDecoderName(
                          SelectSeq(types, LAMBDA t :
                              typeNeedsDecodingFunction(t).value)[i]).text,
             type |-> SelectSeq(types, LAMBDA t : typeNeedsDecodingFunction(t).value)[i]]])

\* the names a marshalling text defines and the codec names it calls, for
\* declarations generateJsCode returns a text for
GeneratedNames(decls) ==
    LET types == extractTypesFromDeclarations(decls)
        typePredicates == extractTypePredicatesFromDeclarations(decls) IN
    { [defined |-> PreludeNames
                   \cup { encoders[i].name : i \in 1..Len(encoders) }
                   \cup { decoders[i].name : i \in 1..Len(decoders) },
       referenced |-> UNION { EncoderReferences(encoders[i].type, typePredicates) :
                                i \in 1..Len(encoders) }
                      \cup UNION { DecoderReferences(decoders[i].type) :
                                     i \in 1..Len(decoders) }
                      \cup UNION { EntryPointReferences(decls[i]) : i \in 1..Len(decls) }] :
        encoders \in NamedEncoders(types.encoders),
        decoders \in NamedDecoders(types.decoders) }

----------------------------------------------------------------------------

(* The explored inputs *)

\* leaf type nodes of the source files
SrcLeaves ==
    { NumberNode, StringNode, NullNode, UndefinedNode,
      StringLiteralNode("a"), NumericLiteralNode("1"),
      TypeReferenceNode("Point", <<>>), TypeLiteralNode }

\* the members a union pairs a type with
UnionPartners == { NullNode, UndefinedNode, StringLiteralNode("a") }

\* the members of the longer unions
UnionLeaves == { StringLiteralNode("a"), StringLiteralNode("b"), NumericLiteralNode("1"), NumberNode }

RECURSIVE SeqsOfLen(_, _)
SeqsOfLen(S, n) ==
    IF n = 0 THEN { <<>> }
    ELSE { <<x>> \o s : x \in S, s \in SeqsOfLen(S, n - 1) }

LongUnions ==
    UNION { { UnionNode(ts) : ts \in SeqsOfLen(UnionLeaves, n) } : n \in 3..MaxUnionLen }

RECURSIVE SrcTypes(_)
SrcTypes(depth) ==
    IF depth = 0 THEN SrcLeaves
    ELSE LET inner == SrcTypes(depth - 1) IN
         inner
         \cup { ArrayNode(t) : t \in inner }
         \cup { ParenthesizedNode(t) : t \in inner }
         \cup { UnionNode(<<t, p>>) : t \in inner, p \in UnionPartners }
         \cup { UnionNode(<<p, t>>) : t \in inner, p \in UnionPartners }

SubjectTypes == SrcTypes(MaxDepth) \cup LongUnions

\* type nodes of the return positions
ReturnTypes == SrcTypes(1) \cup { VoidNode, TypeReferenceNode("PointAlias", <<>>) }

\* one declaration around a subject type: its position and question token
SubjectDeclarations ==
    { FunctionNode("f", <<ParameterNode("p", t, q)>>, VoidNode, MainFile) :
          t \in SubjectTypes, q \in BOOLEAN }
    \cup { InterfaceNode("S", <<>>, <<PropertySignatureNode("p", t, q)>>, MainFile) :
          t \in SubjectTypes, q \in BOOLEAN }
    \cup { FunctionNode("origin", <<>>, t, MainFile) : t \in ReturnTypes }
    \cup { InterfaceNode("S", <<>>, <<MethodSignatureNode("m", ps, t, q)>>, MainFile) :
          ps \in { <<>>, <<ParameterNode("a", NumberNode, FALSE)>>,
                   <<ParameterNode("a", TypeReferenceNode("Point", <<>>), FALSE),
                     ParameterNode("b", UnionNode(<<StringNode, NullNode>>), FALSE)>> },
          t \in SrcLeaves \cup { VoidNode }, q \in BOOLEAN }

\* the source files: one subject declaration, or the interface Point with
\* the function origin that returns it
SourceFiles ==
    { <<d>> : d \in SubjectDeclarations }
    \cup { << Scope["Point"], FunctionNode("origin", <<>>, TypeReferenceNode("Point", <<>>), MainFile) >> }

----------------------------------------------------------------------------
(* The generation run of index.ts main: the IR of the source file, then   *)
(* the generated text                                                      *)

Init ==
    /\ scope = ScopeDeclarations
    /\ pc = "parse"
    /\ source \in SourceFiles
    /\ declarations = None
    /\ dbindings = None
    /\ call = None
    /\ ret = None

\* iterateDeclarations([sourceFile], irVisitor(...)); a throw ends the run
IterateDeclarations ==
    /\ pc = "parse"
    /\ declarations' = iterateDeclarations(source)
    /\ pc' = IF IsError(declarations') THEN "done" ELSE "generate"
    /\ UNCHANGED <<scope, source, dbindings, call, ret>>

\* generateDBindingCode(declarations, packageName)
GenerateDBindingCode ==
    /\ pc = "generate"
    /\ dbindings' = generateDBindingCode(declarations.value)
    /\ pc' = "done"
    /\ UNCHANGED <<scope, source, declarations, call, ret>>

Next == IterateDeclarations \/ GenerateDBindingCode

Spec == Init /\ [][Next]_vars

----------------------------------------------------------------------------
(* Calls of the exported functions of utils.ts and of the private copies   *)
(* of dwrappers.ts: one call per behaviour, the result in ret as           *)
(* [value |-> result], or the Error the call throws                        *)

\* the type parameters a declaration of the scope declares
TypeParametersOf(name) ==
    IF "typeParameters" \in DOMAIN Scope[name] THEN Scope[name].typeParameters ELSE <<>>

\* type nodes of the called functions' types; a reference gives every type
\* parameter of its declaration an argument
CallNodes ==
    SrcTypes(MaxDepth - 1)
    \cup LongUnions
    \cup { TypeReferenceNode(n, [i \in 1..Len(TypeParametersOf(n)) |-> NumberNode]) :
              n \in ScopeNames }
    \cup { MappedNode, TypeLiteralNode, TypeOperatorNode(StringNode),
           ConditionalNode(StringNode, StringNode, NumberNode, BooleanNode),
           TypePredicateNode(StringNode),
           FunctionTypeNode(<<ParameterNode("a", NumberNode, FALSE)>>, VoidNode),
           IntersectionNode(<<TypeReferenceNode("Point", <<>>), TypeLiteralNode>>),
           UnionNode(<<NumericLiteralNode("1"), NumericLiteralNode("2")>>),
           UnionNode(<<TrueLiteralNode, TrueLiteralNode>>) }

\* the types IR construction gives them
BuiltTypes ==
    { t \in { buildType(n, q) : n \in CallNodes, q \in BOOLEAN } : ~IsError(t) }

\* the types a reduction returns, which the generators reduce again
ReducedTypes ==
    { t \in { getBindingType(b) : b \in BuiltTypes } : ~IsError(t) }

\* an indexed access type Point["x"], resolved by the type checker
IndexedType ==
    [type |-> "indexed", fqn |-> "\"" \o MainFile \o "\":Point[\"x\"]",
     objectType |-> buildType(TypeReferenceNode("Point", <<>>), FALSE),
     indexType |-> buildType(StringLiteralNode("x"), FALSE)]

CallTypes == BuiltTypes \cup ReducedTypes \cup { IndexedType }

\* structs, members and argument lists of the mangler's calls
CallStructs == { buildStruct(Scope["Point"]), buildStruct(Scope["HTMLElement"]) }

CallMembers ==
    { visitPropertySignature(PropertySignatureNode("x", NumberNode, FALSE)),
      buildMethod(MethodSignatureNode("m", <<ParameterNode("a", NumberNode, FALSE)>>,
                                      VoidNode, FALSE)) }

CallArguments ==
    { <<>>,
      << [symbol |-> "a", type |-> KeywordType("double", "double")] >>,
      << [symbol |-> "this.handle", type |-> [type |-> "handle"]],
         [symbol |-> "a", type |-> KeywordType("string", "string")] >> }

CallNames == { "origin", "f" }

\* type nodes of the parameters and the return position of the functions
\* the wrapper generator is called with
WrapperNodes ==
    { NumberNode, StringNode, MappedNode,
      TypeReferenceNode("Point", <<>>), TypeReferenceNode("PointAlias", <<>>),
      TypeReferenceNode("PointAlias2", <<>>), TypeReferenceNode("LineType", <<>>),
      ArrayNode(TypeReferenceNode("Point", <<>>)),
      UnionNode(<<TypeReferenceNode("Point", <<>>), NullNode>>) }

\* function f(x: t): r, function f(): r, function f(a: t, b: u): void and
\* the generic function f<T>(x: T | number): r
CallFunctionNodes ==
    { FunctionNode("f", <<ParameterNode("x", t, FALSE)>>, r, MainFile) :
          t \in WrapperNodes, r \in WrapperNodes \cup { VoidNode } }
    \cup { FunctionNode("f", <<>>, r, MainFile) : r \in WrapperNodes \cup { VoidNode } }
    \cup { FunctionNode("f", <<ParameterNode("a", t, FALSE), ParameterNode("b", u, FALSE)>>,
                        VoidNode, MainFile) :
               t \in { NumberNode, TypeReferenceNode("Point", <<>>) },
               u \in { NumberNode, TypeReferenceNode("Point", <<>>), MappedNode } }
    \cup { [FunctionNode("f", <<ParameterNode("x", t, FALSE)>>, r, MainFile)
               EXCEPT !.typeParameters = <<"T">>] :
               t \in { NumberNode, TypeReferenceNode("T", <<>>) },
               r \in { VoidNode, TypeReferenceNode("T", <<>>), TypeReferenceNode("Point", <<>>) } }

\* the function declarations IR construction gives them
CallFunctions ==
    { f \in { visitFunctionDeclaration(n) : n \in CallFunctionNodes } : ~IsError(f) }

\* the structs both generators are run on
GeneratedStructs ==
    { buildStruct(Scope[n]) :
        n \in { "Point", "StructA", "StructOptA", "StructAB", "LinkedNode", "A" } }
    \cup { buildStruct(InterfaceNode("S", << >>,
               << PropertySignatureNode("p", NumberNode, FALSE),
                  MethodSignatureNode("m", << ParameterNode("a", NumberNode, FALSE) >>,
                                      VoidNode, FALSE) >>, MainFile)) }

\* declaration sequences whose generated symbols come from pairwise different
\* declarations: a property p beside a method p_g, the structs A_b and A
\* with the members c and b_c, two overloads of a method, two overloads of
\* a function, and a struct beside a function
MangledInputs ==
    { << buildStruct(InterfaceNode("S", << >>,
             << PropertySignatureNode("p", NumberNode, FALSE),
                MethodSignatureNode("p_g", << >>, NumberNode, FALSE) >>, MainFile)) >>,
      << buildStruct(InterfaceNode("A_b", << >>,
             << PropertySignatureNode("c", NumberNode, FALSE) >>, MainFile)),
         buildStruct(InterfaceNode("A", << >>,
             << PropertySignatureNode("b_c", NumberNode, FALSE) >>, MainFile)) >>,
      << buildStruct(InterfaceNode("M", << >>,
             << MethodSignatureNode("m", << ParameterNode("a", NumberNode, FALSE) >>,
                                    VoidNode, FALSE),
                MethodSignatureNode("m", << ParameterNode("a", StringNode, FALSE) >>,
                                    VoidNode, FALSE) >>, MainFile)) >>,
      << visitFunctionDeclaration(
             FunctionNode("f", << ParameterNode("x", NumberNode, FALSE) >>,
                          VoidNode, MainFile)),
         visitFunctionDeclaration(
             FunctionNode("f", << ParameterNode("x", StringNode, FALSE) >>,
                          VoidNode, MainFile)) >>,
      << buildStruct(Scope["Point"]),
         visitFunctionDeclaration(
             FunctionNode("f", << ParameterNode("x", NumberNode, FALSE) >>,
                          VoidNode, MainFile)) >> }

Calls ==
    { [fn |-> "generateDBindingCode", decls |-> d] : d \in MangledInputs }
    \cup { [fn |-> "getBindingType", type |-> t] : t \in CallTypes }
    \cup { [fn |-> f, name |-> n, args |-> a, kind |-> k] :
              f \in { "mangleFunctionName", "dwrappers.mangleFunctionName" },
              n \in CallNames, a \in CallArguments, k \in FunctionKinds }
    \cup { [fn |-> f, struct |-> s, member |-> m, args |-> a, kind |-> k] :
              f \in { "mangleMethod", "dwrappers.mangleMethod" },
              s \in CallStructs, m \in CallMembers, a \in CallArguments, k \in FunctionKinds }
    \cup { [fn |-> "dwrappers.functionToString", func |-> f] : f \in CallFunctions }
    \cup { [fn |-> "structToString", struct |-> s] : s \in GeneratedStructs }

InitCalls ==
    /\ scope = ScopeDeclarations
    /\ pc = "call"
    /\ call \in Calls
    /\ ret = None
    /\ source = None
    /\ declarations = None
    /\ dbindings = None

\* utils.ts getBindingType(type)
CallGetBindingType ==
    /\ pc = "call"
    /\ call.fn = "getBindingType"
    /\ ret' = (LET Result(type) == IF IsError(type) THEN type ELSE [value |-> type] IN
               Result(getBindingType(call.type)))
    /\ pc' = "returned"
    /\ UNCHANGED <<scope, source, declarations, dbindings, call>>

\* utils.ts getBindingType on the type a first getBindingType returned, as
\* the union decoder does with each member
CallGetBindingTypeAgain ==
    /\ pc = "returned"
    /\ call.fn = "getBindingType"
    /\ ~IsError(ret)
    /\ ret' = [first |-> ret.value, second |-> getBindingType(ret.value)]
    /\ pc' = "reduced"
    /\ UNCHANGED <<scope, source, declarations, dbindings, call>>

\* utils.ts mangleFunctionName(name, args, kind)
CallMangleFunctionName ==
    /\ pc = "call"
    /\ call.fn = "mangleFunctionName"
    /\ ret' = [value |-> mangleFunctionName(call.name, call.args, call.kind)]
    /\ pc' = "returned"
    /\ UNCHANGED <<scope, source, declarations, dbindings, call>>

\* utils.ts mangleMethod(struct, member, args, kind)
CallMangleMethod ==
    /\ pc = "call"
    /\ call.fn = "mangleMethod"
    /\ ret' = [value |-> mangleMethod(call.struct, call.member, call.args, call.kind)]
    /\ pc' = "returned"
    /\ UNCHANGED <<scope, source, declarations, dbindings, call>>

\* dwrappers.ts mangleFunctionName(name, args, kind)
CallDWrappersMangleFunctionName ==
    /\ pc = "call"
    /\ call.fn = "dwrappers.mangleFunctionName"
    /\ ret' = [value |-> DWrappers_mangleFunctionName(call.name, call.args, call.kind)]
    /\ pc' = "returned"
    /\ UNCHANGED <<scope, source, declarations, dbindings, call>>

\* dwrappers.ts mangleMethod(struct, member, args, kind)
CallDWrappersMangleMethod ==
    /\ pc = "call"
    /\ call.fn = "dwrappers.mangleMethod"
    /\ ret' = [value |-> DWrappers_mangleMethod(call.struct, call.member, call.args, call.kind)]
    /\ pc' = "returned"
    /\ UNCHANGED <<scope, source, declarations, dbindings, call>>

\* dwrappers.ts functionToString(func)
CallDWrappersFunctionToString ==
    /\ pc = "call"
    /\ call.fn = "dwrappers.functionToString"
    /\ ret' = (LET Result(text) == IF IsError(text) THEN text ELSE [value |-> text.text] IN
               Result(DWrappers_functionToString(call.func)))
    /\ pc' = "returned"
    /\ UNCHANGED <<scope, source, declarations, dbindings, call>>

\* structToString of dbindings.ts and of dwrappers.ts on the same struct:
\* the names the first declares and the names the code of the second calls
CallStructToString ==
    /\ pc = "call"
    /\ call.fn = "structToString"
    /\ ret' = (LET Names(bindings, wrappers) ==
                       IF IsError(bindings) THEN bindings
                       ELSE IF IsError(wrappers) THEN wrappers
                       ELSE [declared |-> { bindings.lines[i].name :
                                              i \in 1..Len(bindings.lines) },
                             called |-> UNION { { wrappers.members[i].calls[j] :
                                                    j \in 1..Len(wrappers.members[i].calls) } :
                                                i \in 1..Len(wrappers.members) }] IN
               Names(DBindings_structToString(call.struct),
                     DWrappers_structToString(call.struct)))
    /\ pc' = "returned"
    /\ UNCHANGED <<scope, source, declarations, dbindings, call>>

\* dbindings.ts generateDBindingCode(decls): the mangled names of the
\* declared symbols, in the order of the lines
CallGenerateDBindingCode ==
    /\ pc = "call"
    /\ call.fn = "generateDBindingCode"
    /\ ret' = (LET Names(code) ==
                       IF IsError(code) THEN code
                       ELSE [names |-> LET lines == concatAll(code.value) IN
                                       [i \in 1..Len(lines) |-> lines[i].name]] IN
               Names(generateDBindingCode(call.decls)))
    /\ pc' = "returned"
    /\ UNCHANGED <<scope, source, declarations, dbindings, call>>

NextCalls ==
    \/ CallGenerateDBindingCode
    \/ CallGetBindingType
    \/ CallGetBindingTypeAgain
    \/ CallMangleFunctionName
    \/ CallMangleMethod
    \/ CallDWrappersMangleFunctionName
    \/ CallDWrappersMangleMethod
    \/ CallDWrappersFunctionToString
    \/ CallStructToString

SpecCalls == InitCalls /\ [][NextCalls]_vars

----------------------------------------------------------------------------
(* Calls of the functions of jsgenerator.ts: one call per behaviour, the   *)
(* result in ret as [value |-> result], or the Error the call throws       *)

\* the types of the calls: those of the reducer's calls and the keywords
\* any, boolean and void
JsTypes ==
    CallTypes
    \cup { buildType(n, FALSE) : n \in { KeywordNode("AnyKeyword"), BooleanNode, VoidNode } }

\* the declarations of the file a reference of a type node resolves to,
\* each after those it refers to; a declaration of the library is not in
\* the file
RECURSIVE DeclarationsOf(_)
DeclarationsOf(node) ==
    CASE node.kind = "TypeReference" ->
            IF Scope[node.typeName].kind = "TypeParameter"
               \/ Scope[node.typeName].fileName = LibFile
            THEN << >>
            ELSE (IF Scope[node.typeName].kind = "TypeAliasDeclaration"
                  THEN DeclarationsOf(Scope[node.typeName].type) ELSE << >>)
                 \o << Scope[node.typeName] >>
      [] node.kind \in {"UnionType", "IntersectionType"} ->
            concatAll([i \in 1..Len(node.types) |-> DeclarationsOf(node.types[i])])
      [] node.kind = "ArrayType" -> DeclarationsOf(node.elementType)
      [] OTHER -> << >>

\* the parameter types of the functions of the test files of
\* jsgenerator.spec.ts, and some more
JsParameterNodes ==
    { UnionNode(<<StringNode, NumberNode>>),
      UnionNode(<<StringNode, TypeReferenceNode("HTMLElement", <<>>)>>),
      TypeReferenceNode("LineType", <<>>),
      TypeReferenceNode("LineTypeNoInit", <<>>),
      TypeReferenceNode("LineName", <<>>),
      TypeReferenceNode("Common", <<>>),
      UnionNode(<<StringNode, NullNode>>),
      UnionNode(<<NumberNode, NullNode>>),
      UnionNode(<<TypeReferenceNode("A", <<>>), NullNode>>),
      NumberNode, StringNode, ArrayNode(NumberNode), ArrayNode(StringNode),
      TypeReferenceNode("Point", <<>>), TypeReferenceNode("Num", <<>>) }

\* the file of a function f with parameters of the given types
JsFile(nodes) ==
    concatAll([i \in 1..Len(nodes) |-> DeclarationsOf(nodes[i])])
    \o << FunctionNode("f", [i \in 1..Len(nodes) |->
                                ParameterNode(<<"p", "q">>[i], nodes[i], FALSE)],
                       VoidNode, MainFile) >>

\* the files: a function of one parameter, or of two
JsFiles ==
    { JsFile(<<t>>) : t \in JsParameterNodes }
    \cup { JsFile(<<t, u>>) : t, u \in JsParameterNodes }

\* the return types of the functions of the encoder files: unions of
\* strings, numbers and interfaces with and without a literal property,
\* optionals and arrays
JsReturnNodes ==
    { UnionNode(<<StringNode, NumberNode>>),
      UnionNode(<<TypeReferenceNode("StructA", <<>>), TypeReferenceNode("StructB", <<>>)>>),
      UnionNode(<<StringNode, TypeReferenceNode("StructA", <<>>),
                  TypeReferenceNode("StructB", <<>>)>>),
      UnionNode(<<TypeReferenceNode("StructA", <<>>), StringNode,
                  TypeReferenceNode("StructB", <<>>)>>),
      UnionNode(<<TypeReferenceNode("StructA", <<>>), TypeReferenceNode("StructB", <<>>),
                  NumberNode>>),
      UnionNode(<<TypeReferenceNode("StructA", <<>>), TypeReferenceNode("Point", <<>>)>>),
      UnionNode(<<TypeReferenceNode("Point", <<>>), TypeReferenceNode("StructA", <<>>)>>),
      UnionNode(<<TypeReferenceNode("StructA", <<>>), TypeReferenceNode("StructB", <<>>),
                  TypeReferenceNode("Point", <<>>)>>),
      UnionNode(<<TypeReferenceNode("StructA", <<>>), TypeReferenceNode("StructA2", <<>>)>>),
      UnionNode(<<TypeReferenceNode("StructAB", <<>>), TypeReferenceNode("StructBC", <<>>)>>),
      UnionNode(<<TypeReferenceNode("StructOptA", <<>>), TypeReferenceNode("StructB", <<>>)>>),
      UnionNode(<<TypeReferenceNode("Point", <<>>), TypeReferenceNode("A", <<>>)>>),
      UnionNode(<<StringNode, TypeReferenceNode("Point", <<>>), TypeReferenceNode("A", <<>>),
                  TypeReferenceNode("B", <<>>)>>),
      UnionNode(<<NumberNode, NullNode>>),
      UnionNode(<<TypeReferenceNode("Num", <<>>), NullNode>>),
      ArrayNode(NumberNode), ArrayNode(StringNode) }

\* the file of the functions f and g without parameters that return the
\* given types
JsReturnFile(nodes) ==
    concatAll([i \in 1..Len(nodes) |-> DeclarationsOf(nodes[i])])
    \o [i \in 1..Len(nodes) |-> FunctionNode(<<"f", "g">>[i], << >>, nodes[i], MainFile)]

\* the files: one function, or two
JsReturnFiles ==
    { JsReturnFile(<<t>>) : t \in JsReturnNodes }
    \cup { JsReturnFile(<<t, u>>) : t, u \in JsReturnNodes }

\* the files of two functions f and g of one parameter each
JsFunctionFiles ==
    { concatAll([i \in 1..2 |-> DeclarationsOf(<<t, u>>[i])])
      \o [i \in 1..2 |-> FunctionNode(<<"f", "g">>[i],
                                      << ParameterNode("p", <<t, u>>[i], FALSE) >>,
                                      VoidNode, MainFile)] :
        t, u \in { UnionNode(<<NumberNode, NullNode>>),
                   UnionNode(<<TypeReferenceNode("Num", <<>>), NullNode>>),
                   UnionNode(<<StringNode, NullNode>>),
                   UnionNode(<<StringNode, NumberNode>>),
                   ArrayNode(NumberNode), ArrayNode(StringNode) } }

\* the members of the unions given to getTypePredicates: a string, a
\* number, an interface of the standard library, interfaces with a literal
\* property `kind` and interfaces without one
JsMemberNodes ==
    { StringNode, NumberNode } \cup
    { TypeReferenceNode(n, <<>>) :
        n \in { "HTMLElement", "StructA", "StructB", "StructA2", "StructAB", "StructBC",
                "StructOptA", "Point", "A" } }

\* the unions of two members or more, in every order of the members
JsUnionTypes ==
    { buildType(UnionNode(ts), FALSE) :
        ts \in { s \in UNION { SeqsOfLen(JsMemberNodes, n) : n \in 2..MaxUnionLen } :
                   \A i, j \in 1..Len(s) : i # j => s[i] # s[j] } }

\* the type predicates of the file: none, or `function isPoint(x: any): x is Point`
JsTypePredicates ==
    { << >>,
      extractTypePredicatesFromDeclarations(
          << buildDeclaration(
                 FunctionNode("isPoint",
                              << ParameterNode("x", KeywordNode("AnyKeyword"), FALSE) >>,
                              TypePredicateNode(TypeReferenceNode("Point", <<>>)),
                              MainFile)) >>) }

\* the files generateJsCode is called with: one function, with a parameter
\* or with a return type
JsCodeFiles ==
    { JsFile(<<t>>) : t \in JsParameterNodes }
    \cup { JsReturnFile(<<t>>) : t \in JsReturnNodes }

\* the files without a function or a struct (empty, an enum, an alias), the
\* file of an interface without members, and that interface beside a function
JsEmptyFiles ==
    { << >>, << Scope["LineType"] >>, << Scope["Num"] >>,
      << Scope["LineType"], Scope["Num"] >>,
      << InterfaceNode("E", << >>, << >>, MainFile) >>,
      << InterfaceNode("E", << >>, << >>, MainFile),
         FunctionNode("f", << ParameterNode("x", NumberNode, FALSE) >>, VoidNode, MainFile) >> }

\* the optional types whose codecs are run, and the values of each
OptionalTypes ==
    { buildType(UnionNode(<<NumberNode, NullNode>>), FALSE),
      buildType(UnionNode(<<BooleanNode, NullNode>>), FALSE) }
OptionalValues(type) ==
    { None } \cup (IF type.baseType.name = "double" THEN HostDoubles
                  ELSE { HostBoolean(b) : b \in BOOLEAN })

\* the files whose entry points are listed: a function, or an interface
\* with a property and a method, the types being returnable or not
EntryPointTypeNodes ==
    { NumberNode, BooleanNode, StringNode, ArrayNode(NumberNode),
      UnionNode(<<NumberNode, NullNode>>) }
EntryPointParameterNodes ==
    { << >>, << ParameterNode("x", NumberNode, FALSE) >>,
      << ParameterNode("s", StringNode, FALSE) >> }
EntryPointFiles ==
    { << FunctionNode("f", ps, t, MainFile) >> :
          ps \in EntryPointParameterNodes, t \in EntryPointTypeNodes }
    \cup { << InterfaceNode("S", << >>,
                            << PropertySignatureNode("p", t, FALSE),
                               MethodSignatureNode("m", ps, u, FALSE) >>, MainFile) >> :
               ps \in EntryPointParameterNodes, t, u \in EntryPointTypeNodes }

\* unions of interfaces with one or two literal properties, `kind` and `tag`
JsLiteralMemberNodes ==
    { TypeReferenceNode(n, <<>>) :
        n \in { "StructA", "StructKindTag", "StructTagKind", "StructTag", "Point" } }
JsLiteralUnionTypes ==
    { buildType(UnionNode(ts), FALSE) :
        ts \in { s \in UNION { SeqsOfLen(JsLiteralMemberNodes, n) : n \in 2..MaxUnionLen } :
                   \A i, j \in 1..Len(s) : i # j => s[i] # s[j] } }

JsCalls ==
    { [fn |-> "canTypeBeReturned", type |-> t] : t \in JsTypes }
    \cup { [fn |-> "getDecoders", content |-> c] : c \in JsFiles \cup JsFunctionFiles }
    \cup { [fn |-> "getEncoders", content |-> c] : c \in JsReturnFiles }
    \cup { [fn |-> "getTypePredicates", type |-> t, typePredicates |-> p] :
               t \in JsUnionTypes \cup JsLiteralUnionTypes, p \in JsTypePredicates }
    \cup { [fn |-> "generateJsCode", content |-> c, packageName |-> "pkg"] :
               c \in JsCodeFiles \cup JsEmptyFiles }
    \cup { [fn |-> f, elementType |-> t, val |-> v] :
               f \in { "arrayRoundTrip", "arrayDecode" }, t \in ArrayElementTypes,
               v \in UNION { SeqsOfLen(ArrayElements, n) : n \in 0..MaxArrayLen } }
    \cup UNION { { [fn |-> "optionalRoundTrip", type |-> t, val |-> v] :
                        v \in OptionalValues(t) } : t \in OptionalTypes }
    \cup { [fn |-> "entryPoints", content |-> c] : c \in EntryPointFiles }
    \cup { [fn |-> "generatedNames", content |-> c] : c \in JsCodeFiles }

InitJs ==
    /\ scope = ScopeDeclarations
    /\ pc = "call"
    /\ call \in JsCalls
    /\ ret = None
    /\ source = None
    /\ declarations = None
    /\ dbindings = None

\* jsgenerator.ts canTypeBeReturned(type)
CallCanTypeBeReturned ==
    /\ pc = "call"
    /\ call.fn = "canTypeBeReturned"
    /\ ret' = canTypeBeReturned(call.type)
    /\ pc' = "returned"
    /\ UNCHANGED <<scope, source, declarations, dbindings, call>>

\* jsgenerator.spec.ts getDecoders(content): the declarations of the file,
\* the types extracted from them, the decoders of the decoder types
DecodersOf(content) ==
    LET Decoders(types) ==
            IF IsError(types) THEN { types } ELSE getDecoders(types.decoders)
        Extracted(decls) ==
            IF IsError(decls) THEN { decls }
            ELSE Decoders(extractTypesFromDeclarations(decls.value)) IN
    Extracted(iterateDeclarations(content))

CallGetDecoders ==
    /\ pc = "call"
    /\ call.fn = "getDecoders"
    /\ ret' \in DecodersOf(call.content)
    /\ pc' = "returned"
    /\ UNCHANGED <<scope, source, declarations, dbindings, call>>

\* getEncoders(types.encoders, typePredicates) as generateJsCode calls it:
\* the declarations of the file, the type predicates and the types
\* extracted from them, the encoders of the encoder types
EncodersOf(content) ==
    LET Encoders(decls, types) ==
            IF IsError(types) THEN { types }
            ELSE getEncoders(types.encoders, extractTypePredicatesFromDeclarations(decls)) IN
    IF IsError(iterateDeclarations(content)) THEN { iterateDeclarations(content) }
    ELSE Encoders(iterateDeclarations(content).value,
                  extractTypesFromDeclarations(iterateDeclarations(content).value))

CallGetEncoders ==
    /\ pc = "call"
    /\ call.fn = "getEncoders"
    /\ ret' \in EncodersOf(call.content)
    /\ pc' = "returned"
    /\ UNCHANGED <<scope, source, declarations, dbindings, call>>

\* getTypePredicates(type, 'val', typePredicates) as generateEncoder calls it
CallGetTypePredicates ==
    /\ pc = "call"
    /\ call.fn = "getTypePredicates"
    /\ ret' = getTypePredicates(call.type, "val", call.typePredicates)
    /\ pc' = "returned"
    /\ UNCHANGED <<scope, source, declarations, dbindings, call>>

\* index.ts main: generateJsCode(declarations, args.package) of the
\* declarations of the file
CallGenerateJsCode ==
    /\ pc = "call"
    /\ call.fn = "generateJsCode"
    /\ ret' \in (IF IsError(iterateDeclarations(call.content))
                 THEN { iterateDeclarations(call.content) }
                 ELSE generateJsCode(iterateDeclarations(call.content).value,
                                     call.packageName))
    /\ pc' = "returned"
    /\ UNCHANGED <<scope, source, declarations, dbindings, call>>

\* the encoder of the array type runs on call.val: ret is the memory it leaves
CallArrayEncoder ==
    /\ pc = "call"
    /\ call.fn = "arrayRoundTrip"
    /\ ret' = RunArrayEncoder(call.elementType, EmptyMemory, EncodePtr, call.val)
    /\ pc' = IF IsError(ret') THEN "returned" ELSE "encoded"
    /\ UNCHANGED <<scope, source, declarations, dbindings, call>>

\* the decoder of the array type runs on an array the D side has laid out
CallArrayDecoderOfLayout ==
    /\ pc = "call"
    /\ call.fn = "arrayDecode"
    /\ ret' = RunArrayDecoder(call.elementType,
                              ArrayLayout(call.elementType, EncodePtr, call.val), EncodePtr)
    /\ pc' = "returned"
    /\ UNCHANGED <<scope, source, declarations, dbindings, call>>

\* the decoder of the array type runs on the memory the encoder left
CallArrayDecoder ==
    /\ pc = "encoded"
    /\ call.fn = "arrayRoundTrip"
    /\ ret' = RunArrayDecoder(call.elementType, ret.memory, EncodePtr)
    /\ pc' = "returned"
    /\ UNCHANGED <<scope, source, declarations, dbindings, call>>

\* the encoder of the optional type runs on call.val
CallOptionalEncoder ==
    /\ pc = "call"
    /\ call.fn = "optionalRoundTrip"
    /\ ret' = [memory |-> RunOptionalEncoder(call.type, EmptyMemory, EncodePtr, call.val)]
    /\ pc' = "encoded"
    /\ UNCHANGED <<scope, source, declarations, dbindings, call>>

\* the decoder of the optional type runs on the memory the encoder left
CallOptionalDecoder ==
    /\ pc = "encoded"
    /\ call.fn = "optionalRoundTrip"
    /\ ret' = [value |-> RunOptionalDecoder(call.type, ret.memory, EncodePtr)]
    /\ pc' = "returned"
    /\ UNCHANGED <<scope, source, declarations, dbindings, call>>

\* the entry points generateJsCode exports for the declarations of the file
CallEntryPoints ==
    /\ pc = "call"
    /\ call.fn = "entryPoints"
    /\ ret' = [value |-> concatAll([i \in 1..Len(iterateDeclarations(call.content).value) |->
                            EntryPoints(iterateDeclarations(call.content).value[i])])]
    /\ pc' = "returned"
    /\ UNCHANGED <<scope, source, declarations, dbindings, call>>

\* the names of the text generateJsCode returns for the declarations of the
\* file, or the Error generateJsCode throws
CallGeneratedNames ==
    /\ pc = "call"
    /\ call.fn = "generatedNames"
    /\ ret' \in (IF IsError(iterateDeclarations(call.content))
                 THEN { iterateDeclarations(call.content) }
                 ELSE IF \E o \in generateJsCode(iterateDeclarations(call.content).value,
                                                 "pkg") : IsError(o)
                 THEN { o \in generateJsCode(iterateDeclarations(call.content).value,
                                             "pkg") : IsError(o) }
                 ELSE GeneratedNames(iterateDeclarations(call.content).value))
    /\ pc' = "returned"
    /\ UNCHANGED <<scope, source, declarations, dbindings, call>>

NextJs ==
    \/ CallCanTypeBeReturned
    \/ CallGetDecoders
    \/ CallGetEncoders
    \/ CallGetTypePredicates
    \/ CallGenerateJsCode
    \/ CallArrayEncoder
    \/ CallArrayDecoder
    \/ CallArrayDecoderOfLayout
    \/ CallOptionalEncoder
    \/ CallOptionalDecoder
    \/ CallEntryPoints
    \/ CallGeneratedNames

SpecJs == InitJs /\ [][NextJs]_vars

----------------------------------------------------------------------------
(* The recursive functions over references, run call by call: ret.stack   *)
(* holds the calls still to run; the call of the generator returns when   *)
(* none is left, or when one throws                                       *)

\* the types of the calls: keywords, references to structs, enums and
\* aliases, among them the alias `type Json = string | Json[]`, the alias
\* `type MaybeList = MaybeList[] | null` and the interface LinkedNode that
\* refers to itself
RecursionNodes ==
    { StringNode, NumberNode, VoidNode,
      UnionNode(<<StringNode, NumberNode>>),
      UnionNode(<<NumericLiteralNode("1"), NumericLiteralNode("2")>>),
      ArrayNode(TypeReferenceNode("Json", <<>>)),
      UnionNode(<<TypeReferenceNode("Json", <<>>), NullNode>>),
      FunctionTypeNode(<<ParameterNode("a", NumberNode, FALSE)>>, StringNode) }
    \cup { TypeReferenceNode(n, <<>>) :
              n \in { "Point", "PointAlias", "PointAlias2", "Num", "LineType", "LineName",
                      "Common", "Json", "MaybeList", "LinkedNode" } }

RecursiveFunctions ==
    { "hasTypeGotHandle", "canTypeBeReturned", "mangleTypeForDecoding",
      "mangleTypeForEncoding" }

InitRecursion ==
    /\ scope = ScopeDeclarations
    /\ pc = "running"
    /\ call \in { Frame(f, buildType(n, FALSE)) : f \in RecursiveFunctions,
                                                   n \in RecursionNodes }
    /\ ret = [stack |-> << call >>]
    /\ source = None
    /\ declarations = None
    /\ dbindings = None

\* the first call of the stack runs and makes its calls
StepRecursion ==
    /\ pc = "running"
    /\ Len(ret.stack) > 0
    /\ ~IsError(RecursiveCalls(Head(ret.stack)))
    /\ ret' = [stack |-> RecursiveCalls(Head(ret.stack)).calls \o Tail(ret.stack)]
    /\ UNCHANGED <<scope, source, declarations, dbindings, call, pc>>

\* the first call of the stack throws
ThrowRecursion ==
    /\ pc = "running"
    /\ Len(ret.stack) > 0
    /\ IsError(RecursiveCalls(Head(ret.stack)))
    /\ ret' = RecursiveCalls(Head(ret.stack))
    /\ pc' = "returned"
    /\ UNCHANGED <<scope, source, declarations, dbindings, call>>

\* no call is left: the function returns
ReturnRecursion ==
    /\ pc = "running"
    /\ Len(ret.stack) = 0
    /\ ret' = [value |-> "returned"]
    /\ pc' = "returned"
    /\ UNCHANGED <<scope, source, declarations, dbindings, call>>

NextRecursion == StepRecursion \/ ThrowRecursion \/ ReturnRecursion

\* a call that can run does run
SpecRecursion == InitRecursion /\ [][NextRecursion]_vars /\ WF_vars(NextRecursion)

----------------------------------------------------------------------------
(* The checked properties *)

\* the suffix the contract gives each call kind
ContractSuffix(kind) ==
    CASE kind = FunctionKind_setter -> "_s"
      [] kind = FunctionKind_getter -> "_g"
      [] kind = FunctionKind_root -> "_r"
      [] kind = FunctionKind_nomangle -> ""

\* C1: the mangled name of a member is struct.name + "_" + member.name +
\* suffix(kind), and that of a top-level function is name + suffix(kind),
\* with the suffixes _s, _g, _r and none; the name is the same for every
\* argument list, and the functions of utils.ts and their copies in
\* dwrappers.ts return the same name
C1_MangledName ==
    pc = "returned" =>
        /\ call.fn \in { "mangleMethod", "dwrappers.mangleMethod" } =>
              /\ ret.value = call.struct.name \o "_" \o call.member.name
                             \o ContractSuffix(call.kind)
              /\ \A a \in CallArguments :
                    /\ mangleMethod(call.struct, call.member, a, call.kind) = ret.value
                    /\ DWrappers_mangleMethod(call.struct, call.member, a, call.kind) = ret.value
        /\ call.fn \in { "mangleFunctionName", "dwrappers.mangleFunctionName" } =>
              /\ ret.value = call.name \o ContractSuffix(call.kind)
              /\ \A a \in CallArguments :
                    /\ mangleFunctionName(call.name, a, call.kind) = ret.value
                    /\ DWrappers_mangleFunctionName(call.name, a, call.kind) = ret.value

\* a setter of Point.x mangled by the copy of dwrappers.ts with two arguments
C1_Witness ==
    /\ pc = "returned"
    /\ call.fn = "dwrappers.mangleMethod"
    /\ call.kind = FunctionKind_setter
    /\ Len(call.args) = 2
    /\ ret.value = "Point_x_s"

\* the run has built the IR / has generated the foreign-linkage text
Parsed == "value" \in DOMAIN declarations
Generated == "value" \in DOMAIN dbindings

\* the source file declares function f(p: t) / interface S { p: t }
IsSubjectParameter ==
    /\ Len(source) = 1
    /\ source[1].kind = "FunctionDeclaration"
    /\ Len(source[1].parameters) = 1

IsSubjectProperty ==
    /\ Len(source) = 1
    /\ source[1].kind = "InterfaceDeclaration"
    /\ Len(source[1].members) = 1
    /\ source[1].members[1].kind = "PropertySignature"

IsSubject == IsSubjectParameter \/ IsSubjectProperty

\* the node of p and the type the IR gives p
SubjectNode ==
    IF IsSubjectParameter THEN source[1].parameters[1] ELSE source[1].members[1]

SubjectType ==
    IF IsSubjectParameter THEN declarations.value[1].parameters[1].type
    ELSE declarations.value[1].members[1].type

IsNullish(node) == node.kind \in { "NullKeyword", "UndefinedKeyword" }

\* C2: a two-member union with a null keyword or an undefined keyword
\* member builds to optional(other member), never to a union or a
\* literalunion that still holds that member
C2_NullishUnionIsOptional ==
    ( /\ Parsed
      /\ IsSubject
      /\ ~SubjectNode.questionToken
      /\ SubjectNode.type.kind = "UnionType"
      /\ Len(SubjectNode.type.types) = 2
      /\ \E i \in 1..2 : IsNullish(SubjectNode.type.types[i]) )
    => /\ SubjectType.type = "optional"
       /\ \E i \in 1..2 :
             /\ IsNullish(SubjectNode.type.types[i])
             /\ SubjectType.baseType = buildType(SubjectNode.type.types[3 - i], FALSE)

\* the type and every type nested in it
RECURSIVE NestedTypes(_)
NestedTypes(type) ==
    { type } \cup
    CASE type.type \in { "union", "literalunion", "intersection" } ->
            UNION { NestedTypes(type.types[i]) : i \in 1..Len(type.types) }
      [] type.type = "optional" -> NestedTypes(type.baseType)
      [] type.type = "array" -> NestedTypes(type.elementType)
      [] type.type = "reference" ->
            UNION { NestedTypes(type.templateArguments[i]) : i \in 1..Len(type.templateArguments) }
      [] type.type = "function" ->
            NestedTypes(type.returnType)
            \cup UNION { NestedTypes(type.parameters[i].type) : i \in 1..Len(type.parameters) }
      [] type.type = "conditional" ->
            NestedTypes(type.checkType) \cup NestedTypes(type.extendsType)
            \cup NestedTypes(type.trueType) \cup NestedTypes(type.falseType)
      [] type.type = "predicate" -> NestedTypes(type.targetType)
      [] OTHER -> {}

\* the types of a declaration of the IR
DeclarationTypes(d) ==
    CASE d.declaration = "function" ->
            NestedTypes(d.returnType)
            \cup UNION { NestedTypes(d.parameters[i].type) : i \in 1..Len(d.parameters) }
      [] d.declaration = "struct" ->
            UNION { IF d.members[i].memberType = "property"
                    THEN NestedTypes(d.members[i].type)
                    ELSE NestedTypes(d.members[i].returnType)
                         \cup UNION { NestedTypes(d.members[i].parameters[k].type) :
                                         k \in 1..Len(d.members[i].parameters) } :
                    i \in 1..Len(d.members) }
      [] d.declaration = "alias" -> NestedTypes(d.type)
      [] OTHER -> {}

\* every type of the IR of the run
ProducedTypes ==
    UNION { DeclarationTypes(declarations.value[i]) : i \in 1..Len(declarations.value) }

\* C3: no type of the IR, at any depth, of a parameter, property, method
\* or function is an optional whose base type is an optional
C3_NoOptionalOfOptional ==
    Parsed => \A t \in ProducedTypes : ~(t.type = "optional" /\ t.baseType.type = "optional")

\* the union node's members all build to literal nodes
AllMembersBuildToLiteral(node) ==
    /\ node.kind = "UnionType"
    /\ \A i \in 1..Len(node.types) :
          LET Literal(type) == ~IsError(type) /\ type.type = "literal" IN
          Literal(buildType(node.types[i], FALSE))

\* the type of p below the optional of its question token
SubjectBaseType ==
    IF SubjectNode.questionToken THEN SubjectType.baseType ELSE SubjectType

\* C4: a union whose members all build to literal nodes builds to a
\* literalunion with the members in declaration order and their common base
\* kind (members of different base kinds fail the construction), never to a
\* union; no union of the IR has only literal members
C4_LiteralUnion ==
    /\ Parsed =>
          \A t \in ProducedTypes :
              t.type = "union" => \E i \in 1..Len(t.types) : t.types[i].type # "literal"
    /\ (pc # "parse" /\ IsSubject /\ AllMembersBuildToLiteral(SubjectNode.type)) =>
          LET members == [i \in 1..Len(SubjectNode.type.types) |->
                              buildType(SubjectNode.type.types[i], FALSE)] IN
          IF \E i \in 1..Len(members) : members[i].baseType # members[1].baseType
          THEN declarations = Error("Mixing of literal types is not supported")
          ELSE /\ Parsed
               /\ SubjectBaseType.type = "literalunion"
               /\ SubjectBaseType.types = members
               /\ \A i \in 1..Len(members) : SubjectBaseType.baseType = members[i].baseType

\* the parameter p: 'a' | 'b' | 'a' has become a literalunion of three members
C4_Witness ==
    /\ Parsed
    /\ IsSubjectParameter
    /\ AllMembersBuildToLiteral(SubjectNode.type)
    /\ Len(SubjectNode.type.types) = 3
    /\ SubjectType.type = "literalunion"
    /\ SubjectType.baseType = "string"
    /\ SubjectType.types[2].name = "\"b\""

\* C5: getBindingType returns a type for every variant but conditional,
\* mapped and unknown, and fails naming the variant for conditional and
\* unknown; a call on instantiated, on handle or on a reference to a
\* declaration of any kind returns a type
C5_ReducerIsTotal ==
    (pc = "returned" /\ call.fn = "getBindingType") =>
        /\ call.type.type \notin { "conditional", "mapped", "unknown" } => ~IsError(ret)
        /\ call.type.type = "conditional" =>
              ret = Error("Cannot pass contional types across boundary")
        /\ call.type.type = "unknown" =>
              ret = Error("Cannot pass unknown types across boundary")

\* C6: the reduction of a reference to an alias is handle exactly when the
\* reduction of the alias's underlying type is handle; otherwise it is
\* instantiated(name, aliasType, args) for a reference with template
\* arguments and the unchanged reference for one without
C6_AliasReduction ==
    ( /\ pc = "returned"
      /\ call.fn = "getBindingType"
      /\ call.type.type = "reference"
      /\ Declaration(call.type).declaration = "alias" ) =>
        LET aliasType == Declaration(call.type).type IN
        IF getBindingType(aliasType) = HandleType
        THEN ret = [value |-> HandleType]
        ELSE /\ ~IsError(ret)
             /\ IF Len(call.type.templateArguments) # 0
                THEN /\ ret.value.type = "instantiated"
                     /\ ret.value.name = call.type.name
                     /\ ret.value.baseType = aliasType
                     /\ ret.value.templateArguments = call.type.templateArguments
                ELSE ret.value = call.type

\* C7: the reduction of a literalunion is a keyword whose name is one of
\* string, double and bool: the primitive of its base kind, double for a
\* numeric literalunion
C7_LiteralUnionReduction ==
    (pc = "returned" /\ call.fn = "getBindingType" /\ call.type.type = "literalunion") =>
        /\ ~IsError(ret)
        /\ ret.value.type = "keyword"
        /\ ret.value.name \in { "string", "double", "bool" }
        /\ call.type.baseType = "number" => ret.value.name = "double"
        /\ call.type.baseType = "string" => ret.value.name = "string"
        /\ call.type.baseType = "bool" => ret.value.name = "bool"

\* every line of the generated foreign-linkage text
GeneratedLines == concatAll(dbindings.value)

\* the rendering of the reduced type
ReducedText(type) ==
    LET Render(bindingType) ==
            IF IsError(bindingType) THEN bindingType ELSE DBindings_typeToString(bindingType) IN
    Render(getBindingType(type))

\* C8: every top-level function yields one declaration named name + "_r"
\* whose parameter types and return type are the reduced types, a struct
\* reference rendered as the handle type; the getter of a property returns
\* the reduced property type
C8_ReducedReturnTypes ==
    Generated =>
        \A i \in 1..Len(declarations.value) :
            LET d == declarations.value[i] IN
            /\ d.declaration = "function" =>
                  \E k \in 1..Len(GeneratedLines) :
                      /\ \A j \in 1..Len(GeneratedLines) :
                            GeneratedLines[j].name = d.name \o "_r" => j = k
                      /\ GeneratedLines[k].name = d.name \o "_r"
                      /\ GeneratedLines[k].result = ReducedText(d.returnType).text
                      /\ GeneratedLines[k].parameters =
                            [n \in 1..Len(d.parameters) |->
                                DBindings_parameterToString(d.parameters[n]).text]
            /\ d.declaration = "struct" =>
                  \A m \in 1..Len(d.members) :
                      d.members[m].memberType = "property" =>
                          \A k \in 1..Len(GeneratedLines) :
                              GeneratedLines[k].name = d.name \o "_" \o d.members[m].name \o "_g"
                              => GeneratedLines[k].result = ReducedText(d.members[m].type).text

\* C9: the declaration of a method, named struct.name + "_" + member.name,
\* has the receiver handle as its first parameter and then the reduced types
\* of the declared parameters in order: one parameter slot more than declared
C9_MethodReceiver ==
    Generated =>
        \A i \in 1..Len(declarations.value) :
            LET d == declarations.value[i] IN
            d.declaration = "struct" =>
                \A m \in 1..Len(d.members) :
                    d.members[m].memberType = "method" =>
                        \E k \in 1..Len(GeneratedLines) :
                            /\ GeneratedLines[k].name = d.name \o "_" \o d.members[m].name
                            /\ GeneratedLines[k].parameters =
                                  <<"Handle">> \o
                                  [n \in 1..Len(d.members[m].parameters) |->
                                      DBindings_parameterToString(d.members[m].parameters[n]).text]
                            /\ Len(GeneratedLines[k].parameters) = Len(d.members[m].parameters) + 1

\* C10: a property has no getter and no setter exactly when its type is a
\* literal or the undefined keyword; every other property has the getter
\* struct.name + "_" + member.name + "_g" and the setter with "_s"
C10_AccessorSuppression ==
    (Generated /\ IsSubjectProperty) =>
        IF \/ SubjectType.type = "literal"
           \/ SubjectType.type = "keyword" /\ SubjectType.name = "undefined"
        THEN GeneratedLines = <<>>
        ELSE /\ Len(GeneratedLines) = 2
             /\ GeneratedLines[1].name = "S_p_g"
             /\ GeneratedLines[2].name = "S_p_s"

\* a type needs handle-wrapping: it reduces to a handle and is not one
NeedsHandleWrapping(type) == getBindingType(type) = HandleType /\ type.type # "handle"

\* C11: the wrapper generator returns a wrapper text for a top-level
\* function exactly when its return type or one of its parameter types
\* needs handle-wrapping, and the empty text otherwise
C11_WrapperSkip ==
    (pc = "returned" /\ call.fn = "dwrappers.functionToString") =>
        /\ ~IsError(ret)
        /\ (ret.value # "") <=>
              \/ NeedsHandleWrapping(call.func.returnType)
              \/ \E i \in 1..Len(call.func.parameters) :
                    NeedsHandleWrapping(call.func.parameters[i].type)

\* the types the contract lets pass as a plain value: void, a handle (the
\* handle type or a type that has one), the keywords bool and double, a
\* reference to an enum of number/enum members only, an intersection, an
\* indexed type and a predicate; an alias stands for its type
RECURSIVE ContractValueReturnable(_)
ContractValueReturnable(type) ==
    \/ isVoid(type)
    \/ type.type = "handle"
    \/ hasTypeGotHandle(type)
    \/ type.type = "keyword" /\ type.name \in {"bool", "double"}
    \/ type.type \in {"intersection", "indexed", "predicate"}
    \/ /\ type.type = "reference"
       /\ \/ /\ Declaration(type).declaration = "enum"
             /\ \A i \in 1..Len(Declaration(type).members) :
                   Declaration(type).members[i].type \in {"number", "enum"}
          \/ /\ Declaration(type).declaration = "alias"
             /\ ContractValueReturnable(Declaration(type).type)

\* C12: canTypeBeReturned returns a boolean for every type, never fails,
\* and returns true exactly for the types the contract lets pass as a
\* plain value
C12_ValueReturnable ==
    (pc = "returned" /\ call.fn = "canTypeBeReturned") =>
        /\ ~IsError(ret)
        /\ ret.value <=> ContractValueReturnable(call.type)

\* the function the file of a call of getDecoders declares (its last statement)
JsFunction == call.content[Len(call.content)]

\* a reference to an enum of numeric members only or of string members
\* only, or to an alias of an intersection of structs
IsEnumOrIntersectionNode(node) ==
    /\ node.kind = "TypeReference"
    /\ \/ /\ Scope[node.typeName].kind = "EnumDeclaration"
          /\ \/ \A i \in 1..Len(Scope[node.typeName].members) :
                   Scope[node.typeName].members[i].flags \in {"NumberLiteral", "Enum"}
             \/ \A i \in 1..Len(Scope[node.typeName].members) :
                   Scope[node.typeName].members[i].flags = "StringLiteral"
       \/ /\ Scope[node.typeName].kind = "TypeAliasDeclaration"
          /\ Scope[node.typeName].type.kind = "IntersectionType"
          /\ \A i \in 1..Len(Scope[node.typeName].type.types) :
                /\ Scope[node.typeName].type.types[i].kind = "TypeReference"
                /\ Scope[Scope[node.typeName].type.types[i].typeName].kind = "InterfaceDeclaration"

\* C13: for a file whose function takes parameters of an enum type (of
\* numeric members, with or without initialisers, or of string members) or
\* of an alias of an intersection of structs, getDecoders returns the
\* empty string
C13_NoDecoderForEnumOrIntersection ==
    (/\ pc = "returned"
     /\ call.fn = "getDecoders"
     /\ \A i \in 1..Len(JsFunction.parameters) :
           IsEnumOrIntersectionNode(JsFunction.parameters[i].type))
        => ret = [value |-> ""]

\* the decoders of function f(p: LineName, q: Common), the string enum and
\* the alias of the intersection A & B, are the empty string
C13_Witness ==
    /\ pc = "returned"
    /\ call.fn = "getDecoders"
    /\ Len(JsFunction.parameters) = 2
    /\ JsFunction.parameters[1].type = TypeReferenceNode("LineName", <<>>)
    /\ JsFunction.parameters[2].type = TypeReferenceNode("Common", <<>>)
    /\ ret = [value |-> ""]

\* the union S | null of a reference to an interface S and null
IsOptionalInterfaceNode(node) ==
    /\ node.kind = "UnionType"
    /\ Len(node.types) = 2
    /\ node.types[1].kind = "TypeReference"
    /\ Scope[node.types[1].typeName].kind = "InterfaceDeclaration"
    /\ node.types[2] = NullNode

\* C14: for a file whose function takes one parameter of type
\* Interface | null, getDecoders returns the empty string
C14_NoDecoderForOptionalInterface ==
    (/\ pc = "returned"
     /\ call.fn = "getDecoders"
     /\ Len(JsFunction.parameters) = 1
     /\ IsOptionalInterfaceNode(JsFunction.parameters[1].type))
        => ret = [value |-> ""]

\* the orders the declarations of a file can be written in
RECURSIVE Reorderings(_)
Reorderings(s) ==
    IF Len(s) = 0 THEN { << >> }
    ELSE UNION { { << s[i] >> \o rest :
                     rest \in Reorderings(SubSeq(s, 1, i - 1) \o SubSeq(s, i + 1, Len(s))) } :
                 i \in 1..Len(s) }

\* the block a codec call of the file returns, in any order of its declarations
CodecBlocksOf(fn, content) ==
    UNION { IF fn = "getEncoders" THEN EncodersOf(c) ELSE DecodersOf(c) :
            c \in Reorderings(content) }

\* C15: the encoder block and the decoder block of a file list each codec
\* name once, in ascending order of the names, and the block is the same
\* for every permutation of the declarations of the file: the block a call
\* returned is the only block any order of the declarations can give
C15_BlockIndependentOfOrder ==
    (pc = "returned" /\ call.fn \in {"getEncoders", "getDecoders"})
        => CodecBlocksOf(call.fn, call.content) = { ret }

\* the guard chain a returned getTypePredicates call gave
GuardChain == IF pc = "returned" /\ call.fn = "getTypePredicates" /\ ~IsError(ret)
              THEN ret.value ELSE << >>

IsPrimitiveGuard(guard) == guard.op \in {"isString", "isNumber"}
IsLiteralGuard(guard) == guard.op \in {"===", "(||)", "|| == undefined"}

\* the position of the guard of the member of the given index, 0 without one
GuardPosition(index) ==
    IF \E i \in 1..Len(GuardChain) : GuardChain[i].index = index
    THEN CHOOSE i \in 1..Len(GuardChain) : GuardChain[i].index = index
    ELSE 0

\* the members string, StructA and StructB in some order
IsStringStructAStructB(type) ==
    /\ Len(type.types) = 3
    /\ \E i, j, k \in 1..3 :
          /\ type.types[i].type = "keyword" /\ type.types[i].name = "string"
          /\ type.types[j].type = "reference" /\ type.types[j].name = "StructA"
          /\ type.types[k].type = "reference" /\ type.types[k].name = "StructB"

\* C16: in the guard chain of a union every string or number member has its
\* runtime type check, and these checks stand before every guard on a
\* literal property, in whatever order the members are declared; in a union
\* of string, StructA and StructB the check of the string is the first
\* guard, and StructA and StructB are guarded by val.kind === "a" and
\* val.kind === "b"
C16_PrimitiveGuardsFirst ==
    (pc = "returned" /\ call.fn = "getTypePredicates") =>
        /\ ~IsError(ret)
        /\ \A m \in 1..Len(call.type.types) :
              call.type.types[m].type = "keyword"
              /\ call.type.types[m].name \in {"string", "double"}
              => /\ GuardPosition(m - 1) > 0
                 /\ GuardChain[GuardPosition(m - 1)].expression =
                       (IF call.type.types[m].name = "string"
                        THEN StringGuard("val") ELSE NumberGuard("val"))
        /\ \A i, j \in 1..Len(GuardChain) :
              IsPrimitiveGuard(GuardChain[i].expression)
              /\ IsLiteralGuard(GuardChain[j].expression) => i < j
        /\ IsStringStructAStructB(call.type) =>
              /\ Len(GuardChain) = 3
              /\ ExpressionText(GuardChain[1].expression) =
                    "((typeof val === 'string') || (val instanceof String))"
              /\ GuardChain[1].type.type = "keyword"
              /\ \A i \in 2..3 :
                    ExpressionText(GuardChain[i].expression) =
                       (IF GuardChain[i].type.name = "StructA"
                        THEN "val.kind === \"a\"" ELSE "val.kind === \"b\"")

\* a union that declares StructA before string and StructB: the check of
\* the string is the first guard all the same
C16_Witness ==
    /\ pc = "returned"
    /\ call.fn = "getTypePredicates"
    /\ IsStringStructAStructB(call.type)
    /\ call.type.types[1].type = "reference"
    /\ call.type.types[3].type = "reference"
    /\ GuardChain[1].index = 1
    /\ IsPrimitiveGuard(GuardChain[1].expression)
    /\ IsLiteralGuard(GuardChain[2].expression)
    /\ IsLiteralGuard(GuardChain[3].expression)

\* a member that refers to an interface of the file
IsStructMember(type) ==
    /\ type.type = "reference"
    /\ Declaration(type).declaration = "struct"
    /\ Declaration(type).sourceFile \notin LibFiles

HostValues ==
    [typeof : {"string"}, class : {"none"}, kind : {"undefined"}, holds : {{}}]
    \cup [typeof : {"number"}, class : {"none"}, kind : {"undefined"}, holds : {{}}]
    \cup [typeof : {"object"}, class : {"String", "HTMLElement"},
          kind : {"undefined"}, holds : {{}}]
    \cup [typeof : {"object"}, class : {"Object"},
          kind : {"undefined", "\"a\"", "\"b\"", "\"c\""}, holds : {{}, {"isPoint"}}]

\* the value of a guard expression on a host value; the placeholder is no
\* expression and is never true
RECURSIVE GuardHolds(_, _)
GuardHolds(guard, val) ==
    CASE guard.op = "isString" -> val.typeof = "string" \/ val.class = "String"
      [] guard.op = "isNumber" -> val.typeof = "number"
      [] guard.op = "instanceof" -> val.class = guard.name
      [] guard.op = "===" -> val.kind = guard.literal
      [] guard.op = "(||)" ->
            \E i \in 1..Len(guard.guards) : GuardHolds(guard.guards[i], val)
      [] guard.op = "|| == undefined" ->
            GuardHolds(guard.guard, val) \/ val.kind = "undefined"
      [] guard.op = "call" -> guard.functionName \in val.holds
      [] guard.op = "true" -> TRUE
      [] guard.op = "manual" -> FALSE

\* the guards of the chain, the fallback `true` apart, that hold for a value
GuardsHolding(val) ==
    { i \in 1..Len(GuardChain) :
        /\ GuardChain[i].expression # TrueGuard
        /\ GuardHolds(GuardChain[i].expression, val) }

\* C18: the guards of the members of a union are mutually exclusive: for
\* every host value at most one guard other than the fallback `true` holds
C18_GuardsMutuallyExclusive ==
    (pc = "returned" /\ call.fn = "getTypePredicates") =>
        \A val \in HostValues : Cardinality(GuardsHolding(val)) <= 1

\* a member no step of getTypePredicates can guard: an interface of the
\* file without a literal property and without a type predicate
IsUnguardable(type, typePredicates) ==
    /\ IsStructMember(type)
    /\ Len(getLiteralProperties(type)) = 0
    /\ FindTypePredicate(typePredicates, type.fqn) = None

\* a union with two or more members that cannot be guarded
NeedsPlaceholders(type, typePredicates) ==
    /\ type.type = "union"
    /\ Cardinality({ m \in 1..Len(type.types) :
                       IsUnguardable(type.types[m], typePredicates) }) >= 2

\* the declarations of the file of a returned generateJsCode call
JsDeclarations == iterateDeclarations(call.content).value

\* the return type of the function of the file (its last declaration), a type
\* of no kind for a file that does not end with a function
JsReturnType ==
    IF Len(JsDeclarations) > 0
       /\ JsDeclarations[Len(JsDeclarations)].declaration = "function"
    THEN JsDeclarations[Len(JsDeclarations)].returnType
    ELSE [type |-> "none"]

\* C19: when two or more members of a union stay unguarded, the synthesis
\* of the guards does not fail: each of these members gets the placeholder,
\* each string, number or library member keeps its check, and every member
\* has one guard; and generateJsCode of a file whose function returns such
\* a union returns the whole text: the prefix, the encoder block with the
\* encoder of the union, the decoder block, and the exports with the entry
\* points of every function and struct
C19_PlaceholdersDoNotFail ==
    /\ (pc = "returned" /\ call.fn = "getTypePredicates"
        /\ NeedsPlaceholders(call.type, call.typePredicates)) =>
            /\ ~IsError(ret)
            /\ \A m \in 1..Len(call.type.types) :
                  /\ Cardinality({ i \in 1..Len(GuardChain) :
                                     GuardChain[i].index = m - 1 }) = 1
                  /\ IsUnguardable(call.type.types[m], call.typePredicates)
                     => GuardChain[GuardPosition(m - 1)].expression = ManualGuard
                  /\ PrimitivePredicate(call.type.types[m], "val") # None
                     => GuardChain[GuardPosition(m - 1)].expression =
                           PrimitivePredicate(call.type.types[m], "val")
    /\ (pc = "returned" /\ call.fn = "generateJsCode"
        /\ NeedsPlaceholders(JsReturnType, << >>)) =>
            /\ ~IsError(ret)
            /\ \E encoders \in EncodersOf(call.content),
                  decoders \in DecodersOf(call.content) :
                  /\ ~IsError(encoders) /\ encoders.value # ""
                  /\ ~IsError(decoders)
                  /\ ~IsError(JsExports(JsDeclarations))
                  /\ \A i \in 1..Len(JsDeclarations) :
                        JsDeclarations[i].declaration = "function"
                        => ~IsError(functionToString(JsDeclarations[i]))
                  /\ ret.value =
                        join(SelectSeq(<< JsPrefix, encoders.value, decoders.value,
                                          "export let jsExports = { 'pkg': {",
                                          JsExports(JsDeclarations).text, "} };" >>,
                                       LAMBDA part : part # ""), "\n")

\* generateJsCode has returned the text for a file whose function returns
\* the union Point | A, neither member of which can be guarded
C19_Witness ==
    /\ pc = "returned"
    /\ call.fn = "generateJsCode"
    /\ NeedsPlaceholders(JsReturnType, << >>)
    /\ ~IsError(ret)
    /\ Len(JsReturnType.types) = 2
    /\ JsReturnType.types[1].name = "Point"
    /\ JsReturnType.types[2].name = "A"

\* C20: the encoder of an array writes the length at ptr and the offset of
\* the buffer at ptr+4 and encodes every element into the buffer; the
\* decoder reads the length and the offset at the same two addresses and
\* returns the elements, so that decoding what the encoder wrote gives the
\* array back
C20_ArrayRoundTrip ==
    /\ (pc = "encoded" /\ call.fn = "arrayRoundTrip") =>
           ret.memory = ArrayLayout(call.elementType, EncodePtr, call.val)
    /\ (pc = "returned" /\ call.fn \in { "arrayRoundTrip", "arrayDecode" }) =>
           ret = [value |-> call.val]

\* C21: in the codec of an optional the presence flag lies at or beyond the
\* end of the storage of the base value, so that encoding a present value
\* leaves the flag set, and decoding what the encoder wrote returns the
\* value encoded (the numbers 1 and 0 for the booleans), absent for an absent value
C21_OptionalFlagBeyondBase ==
    /\ (pc = "encoded" /\ call.fn = "optionalRoundTrip" /\ call.val # None) =>
           /\ SizeOfBase >= BaseStorage(call.type.baseType)
           /\ getBool(ret.memory, EncodePtr + SizeOfBase) = 1
    /\ (pc = "returned" /\ call.fn = "optionalRoundTrip") =>
           ret.value = (IF "bool" \in DOMAIN call.val
                        THEN HostNumber(IF call.val.bool THEN 1 ELSE 0) ELSE call.val)

\* the branches of the decoder generateDecoder writes for the union of the
\* call: branch i (read for the discriminant i - 1) names functions[i]
UnionDecoderFunctions == DecoderFunctions(DecodedTypes(call.type))

\* C22: every branch of the encoder of a union writes the discriminant of
\* the member it encodes, the position of the member in the declaration,
\* whatever the order the guards are tested in; the decoder has a branch for
\* that discriminant and the branch calls the decoder of the same member;
\* every member has exactly one encoder branch
C22_UnionDiscriminantsAgree ==
    (pc = "returned" /\ call.fn = "getTypePredicates" /\ ~IsError(ret)) =>
        /\ \A k \in 1..Len(ret.value) :
              /\ ret.value[k].index + 1 \in 1..Len(UnionDecoderFunctions)
              /\ ret.value[k].type = call.type.types[ret.value[k].index + 1]
              /\ UnionDecoderFunctions[ret.value[k].index + 1]
                     = getTypeDecoderFunction(getBindingType(ret.value[k].type))
        /\ \A i \in 1..Len(call.type.types) :
              Cardinality({ k \in 1..Len(ret.value) : ret.value[k].index = i - 1 }) = 1

\* a union whose second member is tested first, the decoders of the two
\* members differing
C22_Witness ==
    /\ pc = "returned" /\ call.fn = "getTypePredicates" /\ ~IsError(ret)
    /\ Len(ret.value) >= 2
    /\ ret.value[1].index = 1
    /\ ret.value[2].index = 0
    /\ UnionDecoderFunctions[1] # UnionDecoderFunctions[2]

\* C23: the entry point of a function, of a getter and of a method has the
\* out-parameter `rawResult` exactly when its return type cannot be returned
\* as a value, and the out-parameter is then the first parameter, before the
\* receiver `ctx` and the declared parameters
C23_LeadingOutParameter ==
    (pc = "returned" /\ call.fn = "entryPoints") =>
        \A k \in 1..Len(ret.value) :
            (ret.value[k].kind # "setter" /\ ~IsError(ret.value[k].parameters)) =>
                LET names == ret.value[k].parameters.value IN
                /\ (\E i \in 1..Len(names) : names[i] = "rawResult")
                       <=> ~canTypeBeReturned(ret.value[k].returnType).value
                /\ \A i \in 1..Len(names) : names[i] = "rawResult" => i = 1

\* the members of the union of the call that the first pass leaves without
\* a guard, by position
UnguardedMembers ==
    { i \in 1..Len(call.type.types) : PrimitivePredicate(call.type.types[i], "val") = None }

\* the names of the properties of literal type of the member at a position
LiteralNames(i) ==
    [k \in 1..Len(getLiteralProperties(call.type.types[i])) |->
        getLiteralProperties(call.type.types[i])[k].name]

DeclaresLiteral(i, name) == \E k \in 1..Len(LiteralNames(i)) : LiteralNames(i)[k] = name

SharedWithLater(i, name) ==
    \E j \in UnguardedMembers : j > i /\ DeclaresLiteral(j, name)

\* the unguarded members that share a literal property with a later one
Finders ==
    { i \in UnguardedMembers :
        \E k \in 1..Len(LiteralNames(i)) : SharedWithLater(i, LiteralNames(i)[k]) }

FirstFinder == CHOOSE i \in Finders : \A j \in Finders : i <= j

\* the first property of the first finder that a later member declares
Discriminant ==
    LiteralNames(FirstFinder)[
        CHOOSE k \in 1..Len(LiteralNames(FirstFinder)) :
            /\ SharedWithLater(FirstFinder, LiteralNames(FirstFinder)[k])
            /\ \A l \in 1..(k - 1) :
                   ~SharedWithLater(FirstFinder, LiteralNames(FirstFinder)[l])]

\* the property a literal guard tests
GuardedProperty(guard) ==
    IF guard.op = "(||)" THEN guard.guards[1].propertyName ELSE guard.propertyName

\* C24: the search for a literal discriminant is first-found: the first
\* unguarded member, in declaration order, that shares a property of literal
\* type with a later unguarded member fixes the discriminant, its first such
\* property; exactly the unguarded members that declare this property get a
\* literal guard, on this property; the other members get none, even when
\* they share another literal property with a member
C24_FirstFoundDiscriminant ==
    (pc = "returned" /\ call.fn = "getTypePredicates" /\ ~IsError(ret)) =>
        \A k \in 1..Len(ret.value) :
            /\ IsLiteralGuard(ret.value[k].expression)
                  <=> /\ Finders # {}
                      /\ ret.value[k].index + 1 \in UnguardedMembers
                      /\ DeclaresLiteral(ret.value[k].index + 1, Discriminant)
            /\ IsLiteralGuard(ret.value[k].expression)
                  => GuardedProperty(ret.value[k].expression) = Discriminant

\* a union of three interfaces: the first shares `kind` with the second and
\* `tag` with the third, the third is left without a literal guard
C24_Witness ==
    /\ pc = "returned" /\ call.fn = "getTypePredicates" /\ ~IsError(ret)
    /\ Len(call.type.types) = 3
    /\ Finders # {} /\ FirstFinder = 1 /\ Discriminant = "kind"
    /\ DeclaresLiteral(1, "tag") /\ DeclaresLiteral(3, "tag")
    /\ ~DeclaresLiteral(3, "kind")
    /\ \E k \in 1..Len(ret.value) :
          ret.value[k].index = 2 /\ ~IsLiteralGuard(ret.value[k].expression)
    /\ \E k \in 1..Len(ret.value) :
          ret.value[k].index = 0 /\ IsLiteralGuard(ret.value[k].expression)

\* C25: every call of a recursive function over references finishes, on a
\* self-referential alias or struct too: it returns or it throws
C25_RecursionFinishes == <>(pc = "returned")

\* C26: every codec function the generated text calls, in a codec body or
\* in an entry point, is defined by the text, in the prelude or in the
\* encoder and decoder blocks
C26_ReferencedCodecsDefined ==
    (pc = "returned" /\ call.fn = "generatedNames" /\ ~IsError(ret)) =>
        ret.referenced \subseteq ret.defined

\* C27: every foreign-linkage name the code of the wrapper generator calls
\* for a struct is declared by the foreign-linkage generator for the same
\* struct: both suppress the accessors of the same properties
C27_CalledNamesDeclared ==
    (pc = "returned" /\ call.fn = "structToString" /\ ~IsError(ret)) =>
        ret.called \subseteq ret.declared

\* C28: the symbols generated from one input have pairwise different mangled
\* names: no two lines of the foreign-linkage declarations, which come from
\* different (struct, member, call kind) triples, overloads or top-level
\* functions, carry the same name
C28_MangledNamesDistinct ==
    (pc = "returned" /\ call.fn = "generateDBindingCode" /\ ~IsError(ret)) =>
        \A i, j \in 1..Len(ret.names) : i # j => ret.names[i] # ret.names[j]

\* C29: reducing a reduced type changes nothing: when getBindingType(t)
\* succeeds, getBindingType of its result succeeds too and returns that
\* same result
C29_BindingTypeIdempotent ==
    pc = "reduced" => (~IsError(ret.second) /\ ret.second = ret.first)

\* C30: generateJsCode returns its text and raises nothing on a sequence of
\* declarations the IR construction accepts, the sequences without a
\* function or a struct and those with a struct without members included
C30_GeneratorReturnsText ==
    (pc = "returned" /\ call.fn = "generateJsCode"
        /\ ~IsError(iterateDeclarations(call.content))) =>
        ~IsError(ret)

============================================================================
